---- MODULE Spec2Model ----
(***************************************************************************)
(* Model of the concurrent crawler of deepnoodle-ai/web (package crawler)  *)
(* and of the URL helpers of package web it relies on (NormalizeURL,       *)
(* AreSameHost, AreRelatedHosts).                                          *)
(*                                                                         *)
(* Strings are sequences of one-character strings, so that the prefix,     *)
(* substring and split operations of the source are computed and not       *)
(* assumed.  The alphabet is restricted to lower-case letters, digits,     *)
(* the space, the punctuation ". / : ? # + - %" and the upper-case hex     *)
(* digits A to F that percent escapes are written with: no other upper     *)
(* case, no userinfo, no bracketed hosts.  A percent escape of a byte that *)
(* is not a character of the alphabet decodes to one element, "%XY", that  *)
(* stands for that byte; every operation on strings treats the element as  *)
(* the byte, so that String() writes it as it stands where net/url does    *)
(* not escape that byte (G to Z, _ ~ $ & , ; = @) and as its escape        *)
(* elsewhere.                                                              *)
(***************************************************************************)
EXTENDS Integers, Sequences, FiniteSets, Bags, TLC

(***************************************************************************)
(* Strings                                                                 *)
(***************************************************************************)
Letters ==
    {"a","b","c","d","e","f","g","h","i","j","k","l","m",
     "n","o","p","q","r","s","t","u","v","w","x","y","z"}

Digits == {"0","1","2","3","4","5","6","7","8","9"}

\* The byte of each character of the alphabet (sort.Strings and net/url work on bytes).
ByteCodes ==
    (" " :> 32) @@ ("#" :> 35) @@ ("%" :> 37) @@ ("+" :> 43) @@ ("-" :> 45) @@
    ("." :> 46) @@ ("/" :> 47) @@ ("0" :> 48) @@ ("1" :> 49) @@ ("2" :> 50) @@
    ("3" :> 51) @@ ("4" :> 52) @@ ("5" :> 53) @@ ("6" :> 54) @@ ("7" :> 55) @@
    ("8" :> 56) @@ ("9" :> 57) @@ (":" :> 58) @@ ("?" :> 63) @@ ("A" :> 65) @@
    ("B" :> 66) @@ ("C" :> 67) @@ ("D" :> 68) @@ ("E" :> 69) @@ ("F" :> 70) @@
    ("a" :> 97) @@ ("b" :> 98) @@ ("c" :> 99) @@ ("d" :> 100) @@ ("e" :> 101) @@
    ("f" :> 102) @@ ("g" :> 103) @@ ("h" :> 104) @@ ("i" :> 105) @@ ("j" :> 106) @@
    ("k" :> 107) @@ ("l" :> 108) @@ ("m" :> 109) @@ ("n" :> 110) @@ ("o" :> 111) @@
    ("p" :> 112) @@ ("q" :> 113) @@ ("r" :> 114) @@ ("s" :> 115) @@ ("t" :> 116) @@
    ("u" :> 117) @@ ("v" :> 118) @@ ("w" :> 119) @@ ("x" :> 120) @@ ("y" :> 121) @@
    ("z" :> 122)

\* The digits of "0123456789ABCDEF", the table escape of net/url writes with.
UpperHexDigits == <<"0","1","2","3","4","5","6","7","8","9","A","B","C","D","E","F">>

\* The byte of each element of a string: the byte of a character of the alphabet, and
\* the byte XY for the element "%XY" that stands for a byte outside the alphabet.
ElementBytes ==
    ByteCodes @@
    [e \in {"%" \o UpperHexDigits[i] \o UpperHexDigits[j] : i, j \in 1..16} |->
        LET p == CHOOSE p \in (1..16) \X (1..16) :
                     "%" \o UpperHexDigits[p[1]] \o UpperHexDigits[p[2]] = e
        IN  16 * (p[1] - 1) + (p[2] - 1)]

\* The byte an element of a string is.
ByteOf(c) == ElementBytes[c]

\* s[from:] of Go, with from a 1-based position.
Drop(s, from) == SubSeq(s, from, Len(s))

\* strings.HasPrefix
HasPrefix(s, p) == Len(s) >= Len(p) /\ SubSeq(s, 1, Len(p)) = p

\* strings.Index, 1-based; 0 when sub does not occur.
Index(s, sub) ==
    IF \E i \in 1..(Len(s) - Len(sub) + 1) : SubSeq(s, i, i + Len(sub) - 1) = sub
    THEN CHOOSE i \in 1..(Len(s) - Len(sub) + 1) :
             /\ SubSeq(s, i, i + Len(sub) - 1) = sub
             /\ \A j \in 1..(i - 1) : SubSeq(s, j, j + Len(sub) - 1) # sub
    ELSE 0

\* strings.Contains
Contains(s, sub) == Index(s, sub) # 0

\* strings.Cut: the text before and after the first occurrence of sep.
Cut(s, sep) ==
    LET i == Index(s, sep)
    IN  IF i = 0 THEN [before |-> s, after |-> <<>>, found |-> FALSE]
        ELSE [before |-> SubSeq(s, 1, i - 1), after |-> Drop(s, i + Len(sep)), found |-> TRUE]

\* strings.TrimSpace (the space is the only white space of the alphabet).
RECURSIVE TrimLeft(_)
TrimLeft(s) == IF s # <<>> /\ Head(s) = " " THEN TrimLeft(Tail(s)) ELSE s

RECURSIVE TrimRight(_)
TrimRight(s) ==
    IF s # <<>> /\ s[Len(s)] = " " THEN TrimRight(SubSeq(s, 1, Len(s) - 1)) ELSE s

TrimSpace(s) == TrimRight(TrimLeft(s))

\* strings.Split(s, "."): the dot-separated parts, at least one.
RECURSIVE Split(_, _)
Split(s, sep) ==
    LET c == Cut(s, sep)
    IN  IF c.found THEN <<c.before>> \o Split(c.after, sep) ELSE <<s>>

\* strings.Join
RECURSIVE Join(_, _)
Join(parts, sep) ==
    IF parts = <<>> THEN <<>>
    ELSE IF Len(parts) = 1 THEN parts[1]
    ELSE parts[1] \o sep \o Join(Tail(parts), sep)

\* Byte-wise string order, as sort.Strings uses.
RECURSIVE StrLess(_, _)
StrLess(a, b) ==
    IF b = <<>> THEN FALSE
    ELSE IF a = <<>> THEN TRUE
    ELSE IF a[1] = b[1] THEN StrLess(Tail(a), Tail(b))
    ELSE ByteOf(a[1]) < ByteOf(b[1])

\* sort.Strings of the members of a set of strings.
RECURSIVE SortStrings(_)
SortStrings(S) ==
    IF S = {} THEN <<>>
    ELSE LET m == CHOOSE x \in S : \A y \in S \ {x} : StrLess(x, y)
         IN  <<m>> \o SortStrings(S \ {m})

\* strings.LastIndex, 1-based; 0 when sub does not occur.
LastIndex(s, sub) ==
    IF \E i \in 1..(Len(s) - Len(sub) + 1) : SubSeq(s, i, i + Len(sub) - 1) = sub
    THEN CHOOSE i \in 1..(Len(s) - Len(sub) + 1) :
             /\ SubSeq(s, i, i + Len(sub) - 1) = sub
             /\ \A j \in (i + 1)..(Len(s) - Len(sub) + 1) :
                    SubSeq(s, j, j + Len(sub) - 1) # sub
    ELSE 0

\* strings.Count of a one-character string.
CountChar(s, c) == Cardinality({i \in 1..Len(s) : s[i] = c})

(***************************************************************************)
(* net/url as the repository uses it: url.Parse, URL.String, URL.Hostname. *)
(* A URL value is a record of the fields of url.URL the code reads.        *)
(***************************************************************************)
HTTP == <<"h","t","t","p">>

HTTPColonSlashSlash == <<"h","t","t","p",":","/","/">>

HTTPSColonSlashSlash == <<"h","t","t","p","s",":","/","/">>

NoURL ==
    [ok |-> FALSE, Scheme |-> <<>>, Opaque |-> <<>>, Host |-> <<>>, Path |-> <<>>,
     RawPath |-> <<>>, RawQuery |-> <<>>, ForceQuery |-> FALSE, Fragment |-> <<>>,
     RawFragment |-> <<>>, OmitHost |-> FALSE]

LowerHexDigits == <<"0","1","2","3","4","5","6","7","8","9","a","b","c","d","e","f">>

\* ishex of net/url
IsHex(c) == \E i \in 1..16 : c = UpperHexDigits[i] \/ c = LowerHexDigits[i]

\* unhex of net/url
Unhex(c) == (CHOOSE i \in 1..16 : c = UpperHexDigits[i] \/ c = LowerHexDigits[i]) - 1

\* The byte that the escape "%" h1 h2 stands for: the character of the alphabet with
\* that byte or, for any other byte, one element named by the escape in upper case.
UnescapedByte(h1, h2) ==
    LET b == 16 * Unhex(h1) + Unhex(h2)
    IN  IF \E c \in DOMAIN ByteCodes : ByteCodes[c] = b
        THEN CHOOSE c \in DOMAIN ByteCodes : ByteCodes[c] = b
        ELSE "%" \o UpperHexDigits[Unhex(h1) + 1] \o UpperHexDigits[Unhex(h2) + 1]

\* shouldEscape of net/url for the modes encodePath, encodeFragment and encodeHost,
\* on the byte of c: letters and digits; in a host ! $ & ' ( ) * + , ; = : [ ] < > ";
\* the marks - _ . ~; the reserved $ & + , / : ; = ? @; in a fragment ! ( ) *.
ShouldEscape(c, mode) ==
    \E b \in {ByteOf(c)} :
        IF b \in 97..122 \/ b \in 65..90 \/ b \in 48..57 THEN FALSE
        ELSE IF mode = "host"
                /\ b \in {33, 36, 38, 39, 40, 41, 42, 43, 44, 59, 61, 58, 91, 93, 60, 62, 34}
             THEN FALSE
        ELSE IF b \in {45, 95, 46, 126} THEN FALSE
        ELSE IF b \in {36, 38, 43, 44, 47, 58, 59, 61, 63, 64}
             THEN CASE mode = "path" -> b = 63
                    [] mode = "fragment" -> FALSE
                    [] OTHER -> TRUE
        ELSE IF mode = "fragment" /\ b \in {33, 40, 41, 42} THEN FALSE
        ELSE TRUE

\* The three characters escape of net/url writes for c.
EscapedByte(c) ==
    <<"%", UpperHexDigits[(ByteOf(c) \div 16) + 1], UpperHexDigits[(ByteOf(c) % 16) + 1]>>

\* escape of net/url
RECURSIVE Escape(_, _)
Escape(s, mode) ==
    IF s = <<>> THEN <<>>
    ELSE (IF ShouldEscape(s[1], mode) THEN EscapedByte(s[1]) ELSE <<s[1]>>)
         \o Escape(Tail(s), mode)

NoString == [ok |-> FALSE, s |-> <<>>]

\* unescape of net/url: ok = FALSE stands for the error return.
RECURSIVE Unescape(_, _)
Unescape(s, mode) ==
    IF s = <<>> THEN [ok |-> TRUE, s |-> <<>>]
    ELSE IF s[1] = "%"
         THEN IF Len(s) < 3 \/ ~IsHex(s[2]) \/ ~IsHex(s[3]) THEN NoString
              ELSE IF mode = "host" /\ Unhex(s[2]) < 8 /\ SubSeq(s, 1, 3) # <<"%","2","5">>
                   THEN NoString
              ELSE LET rest == Unescape(Drop(s, 4), mode)
                   IN  IF ~rest.ok THEN NoString
                       ELSE [ok |-> TRUE, s |-> <<UnescapedByte(s[2], s[3])>> \o rest.s]
    ELSE IF mode = "host" /\ ShouldEscape(s[1], mode) /\ ByteOf(s[1]) < 128 THEN NoString
    ELSE LET rest == Unescape(Tail(s), mode)
         IN  IF ~rest.ok THEN NoString ELSE [ok |-> TRUE, s |-> <<s[1]>> \o rest.s]

\* validEncoded of net/url: ! $ & ' ( ) * + , ; = : @ [ ] and % pass in every mode.
ValidEncoded(s, mode) ==
    \A i \in 1..Len(s) :
       \/ ByteOf(s[i]) \in {33, 36, 38, 39, 40, 41, 42, 43, 44, 59, 61, 58, 64, 91, 93, 37}
       \/ ~ShouldEscape(s[i], mode)

\* The raw form setPath and setFragment keep: none when it is the default encoding.
RawForm(decoded, raw, mode) == IF Escape(decoded, mode) = raw THEN <<>> ELSE raw

\* URL.setPath
SetPath(u, p) ==
    LET path == Unescape(p, "path")
    IN  IF ~u.ok \/ ~path.ok THEN NoURL
        ELSE [u EXCEPT !.Path = path.s, !.RawPath = RawForm(path.s, p, "path")]

\* URL.setFragment
SetFragment(u, f) ==
    LET frag == Unescape(f, "fragment")
    IN  IF ~u.ok \/ ~frag.ok THEN NoURL
        ELSE [u EXCEPT !.Fragment = frag.s, !.RawFragment = RawForm(frag.s, f, "fragment")]

\* The choice of URL.EscapedPath and URL.EscapedFragment between the raw form and
\* the default encoding. EscapedPath returns the path "*", the one byte 42, as it is.
EscapedForm(decoded, raw, mode) ==
    IF raw # <<>> /\ ValidEncoded(raw, mode) /\ Unescape(raw, mode) = [ok |-> TRUE, s |-> decoded]
    THEN raw
    ELSE IF mode = "path" /\ Len(decoded) = 1 /\ ByteOf(decoded[1]) = 42
         THEN decoded
    ELSE Escape(decoded, mode)

\* URL.EscapedPath
EscapedPath(u) == EscapedForm(u.Path, u.RawPath, "path")

\* URL.EscapedFragment
EscapedFragment(u) == EscapedForm(u.Fragment, u.RawFragment, "fragment")

\* strings.ToLower: an upper-case letter becomes the letter 32 bytes above it.
ToLower(s) ==
    [i \in 1..Len(s) |->
        IF ByteOf(s[i]) \in 65..90
        THEN CHOOSE c \in DOMAIN ByteCodes : ByteCodes[c] = ByteOf(s[i]) + 32
        ELSE s[i]]

\* getScheme of net/url: the text before the first ':' when it is a scheme.
RECURSIVE SchemeScan(_, _)
SchemeScan(s, i) ==
    IF i > Len(s) THEN [ok |-> TRUE, scheme |-> <<>>, rest |-> s]
    ELSE IF \E b \in {ByteOf(s[i])} : b \in 97..122 \/ b \in 65..90
         THEN SchemeScan(s, i + 1)
    ELSE IF s[i] \in Digits \/ s[i] \in {"+", "-", "."}
         THEN IF i = 1 THEN [ok |-> TRUE, scheme |-> <<>>, rest |-> s]
              ELSE SchemeScan(s, i + 1)
    ELSE IF s[i] = ":"
         THEN IF i = 1 THEN [ok |-> FALSE, scheme |-> <<>>, rest |-> <<>>]
              ELSE [ok |-> TRUE, scheme |-> SubSeq(s, 1, i - 1), rest |-> Drop(s, i + 1)]
    ELSE [ok |-> TRUE, scheme |-> <<>>, rest |-> s]

GetScheme(s) == SchemeScan(s, 1)

\* validOptionalPort of net/url: "" or ":" followed by digits only.
ValidOptionalPort(p) ==
    p = <<>> \/ (p[1] = ":" /\ \A i \in 2..Len(p) : p[i] \in Digits)

\* parseHost of net/url on the model's alphabet: the port after the last colon must
\* be numeric, then the host is unescaped in the host mode.
ParseHost(h) ==
    LET i == LastIndex(h, <<":">>)
    IN  IF i # 0 /\ ~ValidOptionalPort(Drop(h, i)) THEN NoString
        ELSE Unescape(h, "host")

\* parseAuthority of net/url (no userinfo in the alphabet), then the path after it.
ParseAuthority(base, a) ==
    LET i == Index(a, <<"/">>)
        authority == IF i = 0 THEN a ELSE SubSeq(a, 1, i - 1)
        host == ParseHost(authority)
    IN  IF host.ok
        THEN SetPath([base EXCEPT !.Host = host.s], IF i = 0 THEN <<>> ELSE Drop(a, i))
        ELSE NoURL

\* parse of net/url from the point where the scheme and the query are split off.
ParseRest(base, rest) ==
    IF ~HasPrefix(rest, <<"/">>) /\ base.Scheme # <<>>
    THEN [base EXCEPT !.Opaque = rest]
    ELSE IF ~HasPrefix(rest, <<"/">>) /\ Contains(Cut(rest, <<"/">>).before, <<":">>)
         THEN NoURL
    ELSE IF (base.Scheme # <<>> \/ ~HasPrefix(rest, <<"/","/","/">>))
            /\ HasPrefix(rest, <<"/","/">>)
         THEN ParseAuthority(base, Drop(rest, 3))
    ELSE SetPath([base EXCEPT !.OmitHost = (base.Scheme # <<>> /\ HasPrefix(rest, <<"/">>))],
                 rest)

\* parse of net/url from the point where the scheme is split off: the query.
ParseQuery(base, rest) ==
    IF rest # <<>> /\ rest[Len(rest)] = "?" /\ CountChar(rest, "?") = 1
    THEN ParseRest([base EXCEPT !.ForceQuery = TRUE], SubSeq(rest, 1, Len(rest) - 1))
    ELSE ParseRest([base EXCEPT !.RawQuery = Cut(rest, <<"?">>).after],
                   Cut(rest, <<"?">>).before)

\* parse of net/url: the scheme, in lower case, then the rest.
ParseScheme(sc) ==
    IF ~sc.ok THEN NoURL
    ELSE ParseQuery([NoURL EXCEPT !.ok = TRUE, !.Scheme = ToLower(sc.scheme)], sc.rest)

\* url.Parse from the point where the fragment is cut off: the fragment is set on
\* the parsed URL when there is one.
ParseFragment(f) ==
    IF \E s \in {f.before} : \E i \in 1..Len(s) : ByteOf(s[i]) < 32 \/ ByteOf(s[i]) = 127
    THEN NoURL
    ELSE IF f.after = <<>> THEN ParseScheme(GetScheme(f.before))
    ELSE SetFragment(ParseScheme(GetScheme(f.before)), f.after)

\* url.Parse
ParseURL(raw) == ParseFragment(Cut(raw, <<"#">>))

\* URL.String
URLString(u) ==
    LET scheme == IF u.Scheme # <<>> THEN u.Scheme \o <<":">> ELSE <<>>
        auth == IF u.Scheme # <<>> \/ u.Host # <<>>
                THEN IF u.OmitHost /\ u.Host = <<>> THEN <<>>
                     ELSE (IF u.Host # <<>> \/ u.Path # <<>> THEN <<"/","/">> ELSE <<>>)
                          \o Escape(u.Host, "host")
                ELSE <<>>
        path == EscapedPath(u)
        slash == IF path # <<>> /\ path[1] # "/" /\ u.Host # <<>> THEN <<"/">> ELSE <<>>
        dot == IF scheme \o auth \o slash = <<>>
                  /\ Contains(Cut(path, <<"/">>).before, <<":">>)
               THEN <<".","/">> ELSE <<>>
        body == IF u.Opaque # <<>> THEN u.Opaque ELSE auth \o slash \o dot \o path
        query == IF u.ForceQuery \/ u.RawQuery # <<>> THEN <<"?">> \o u.RawQuery ELSE <<>>
        frag == IF u.Fragment # <<>> THEN <<"#">> \o EscapedFragment(u) ELSE <<>>
    IN  scheme \o body \o query \o frag

\* URL.Hostname: Host without a valid port.
Hostname(u) ==
    LET i == LastIndex(u.Host, <<":">>)
    IN  IF i # 0 /\ ValidOptionalPort(Drop(u.Host, i)) THEN SubSeq(u.Host, 1, i - 1)
        ELSE u.Host

(***************************************************************************)
(* package web: NormalizeURL, AreSameHost, AreRelatedHosts                 *)
(***************************************************************************)
\* The scheme steps of NormalizeURL: "https://" is put before a value that does not
\* start with "http", and replaces "http://".
SecureScheme(value) ==
    IF ~HasPrefix(value, HTTP) THEN HTTPSColonSlashSlash \o value
    ELSE IF HasPrefix(value, HTTPColonSlashSlash)
         THEN HTTPSColonSlashSlash \o Drop(value, 8)
    ELSE value

\* The last steps of NormalizeURL: no query, no fragment, no path "/".
StripURL(u) ==
    IF ~u.ok THEN NoURL
    ELSE [u EXCEPT !.ForceQuery = FALSE, !.RawQuery = <<>>, !.Fragment = <<>>,
                   !.Path = IF u.Path = <<"/">> THEN <<>> ELSE u.Path]

NormalizeTrimmed(value) ==
    IF value = <<>> THEN NoURL
    ELSE IF ~HasPrefix(value, HTTP) /\ Contains(value, <<":","/","/">>) THEN NoURL
    ELSE StripURL(ParseURL(SecureScheme(value)))

\* NormalizeURL: the normalized url.URL, ok = FALSE standing for the error return.
NormalizeURL(raw) == NormalizeTrimmed(TrimSpace(raw))

\* AreSameHost: ok = FALSE stands for the nil URL.
AreSameHost(url1, url2) == url1.ok /\ url2.ok /\ url1.Host = url2.Host

\* A comparison of the last part alone, whatever the number of parts.
RelatedLastPart(parts1, parts2) == parts1[Len(parts1)] = parts2[Len(parts2)]

\* A comparison that relates two different hosts under one parent domain and does
\* not relate a host to itself.
RelatedButDifferent(parts1, parts2) ==
    /\ Len(parts1) >= 2
    /\ Len(parts2) >= 2
    /\ SubSeq(parts1, Len(parts1) - 1, Len(parts1)) = SubSeq(parts2, Len(parts2) - 1, Len(parts2))
    /\ parts1 # parts2

\* The comparison of AreRelatedHosts on the dot-separated parts of the two hosts.
RelatedParts(parts1, parts2) ==
    IF Len(parts1) < 2 \/ Len(parts2) < 2 THEN FALSE
    ELSE Join(SubSeq(parts1, Len(parts1) - 1, Len(parts1)), <<".">>)
         = Join(SubSeq(parts2, Len(parts2) - 1, Len(parts2)), <<".">>)

\* AreRelatedHosts
AreRelatedHosts(url1, url2) ==
    /\ url1.ok
    /\ url2.ok
    /\ RelatedParts(Split(url1.Host, <<".">>), Split(url2.Host, <<".">>))

(***************************************************************************)
(* The inputs of the model: raw seed URLs, the pages the fetcher serves    *)
(* and the option values a crawler is constructed with.                    *)
(***************************************************************************)
MaxWorkers == 2

MaxQueueSize == 2

MaxMaxURLs == 2

MaxSeeds == 2

MaxRuns == 2

\* Raw seed strings as a caller passes them to Crawl.
SeedA == <<"a",".","c","o">>

SeedAHttp == <<"h","t","t","p",":","/","/","a",".","c","o","/">>

SeedB == <<"h","t","t","p","s",":","/","/","b",".","c","o">>

SeedFtp == <<"f","t","p",":","/","/","a",".","c","o">>

SeedURLs == {SeedA, SeedAHttp, SeedB, SeedFtp}

RECURSIVE SeqsUpTo(_, _)
SeqsUpTo(S, n) ==
    IF n = 0 THEN {<<>>}
    ELSE SeqsUpTo(S, n - 1) \cup {Append(q, x) : q \in SeqsUpTo(S, n - 1), x \in S}

\* The seed lists explored: every list of fewer than MaxSeeds seeds, and the lists
\* of MaxSeeds seeds that begin with the seed that has no scheme or with the one
\* NormalizeURL rejects.
SeedLists ==
    {s \in SeqsUpTo(SeedURLs, MaxSeeds) : Len(s) = MaxSeeds => s[1] \in {SeedA, SeedFtp}}

\* Normalized page URLs.
PageA == HTTPSColonSlashSlash \o <<"a",".","c","o">>

PageX == HTTPSColonSlashSlash \o <<"a",".","c","o","/","x">>

PageB == HTTPSColonSlashSlash \o <<"b",".","c","o">>

PageS == HTTPSColonSlashSlash \o <<"s",".","a",".","c","o">>

\* Raw link strings as they stand in a fetched page.
LinkX == <<"/","x">>

LinkXFrag == <<"/","x","#","t">>

LinkRoot == <<"/">>

LinkMailto == <<"m","a","i","l","t","o",":","m">>

\* A fetcher in the manner of the tests' MockFetcher: a URL maps to an error or to a
\* response with markup and a list of links; a URL it has no entry for is an error.
FetchError == [err |-> TRUE, HTML |-> FALSE, Links |-> <<>>]

Page(links) == [err |-> FALSE, HTML |-> TRUE, Links |-> links]

WebLinked ==
    [u \in {PageA, PageX, PageB} |->
        IF u = PageA THEN Page(<<LinkX, PageB, LinkXFrag, PageS, LinkMailto>>)
        ELSE IF u = PageB THEN Page(<<PageX>>)
        ELSE Page(<<LinkRoot>>)]

\* A response without error and with empty markup.
EmptyPage == [err |-> FALSE, HTML |-> FALSE, Links |-> <<>>]

WebFailing ==
    [u \in {PageA, PageB} |-> IF u = PageA THEN FetchError ELSE EmptyPage]

Fetchers == {WebLinked, WebFailing}

\* MockFetcher.Fetch
Fetch(f, url) == IF url \in DOMAIN f THEN f[url] ELSE FetchError

FollowAny == "any"

FollowSameDomain == "same_domain"

FollowRelatedSubdomains == "related_subdomains"

FollowNone == "none"

FollowBehaviors == {FollowAny, FollowSameDomain, FollowRelatedSubdomains, FollowNone}

\* Options as New receives them.  Cache is "none" for a nil cache, "cold" for a
\* cache that holds nothing when the crawler is built, "warm" for one that holds
\* the page of the first seed; Parsers is the set of hosts the
\* parser map has an entry for.
HostA == <<"a",".","c","o">>

AllOptions ==
    [MaxURLs : 1..MaxMaxURLs,
     Workers : 1..MaxWorkers,
     QueueSize : 1..MaxQueueSize,
     FollowBehavior : FollowBehaviors,
     Cache : {"none", "cold", "warm"},
     Parsers : {{HostA}},
     DefaultParser : BOOLEAN]

\* The parsers are mocks that fail on the pages of this set and succeed elsewhere.
ParserFailsOn == {PageX, PageB}

\* The scenarios explored.  The worker pool is varied (workers, queue size, cap)
\* with every link followed and a context that is never cancelled; the page
\* pipeline is varied (follow behaviour, cache, parsers, pages) with one worker;
\* and the caller cancels its context in runs of one worker that follow every link.
PoolScenarios ==
    {[opts |-> o, fetcher |-> WebLinked, cancellable |-> FALSE] :
        o \in {x \in AllOptions : /\ x.FollowBehavior = FollowAny
                                  /\ x.Cache = "none"
                                  /\ ~x.DefaultParser}}

PipelineScenarios ==
    {[opts |-> o, fetcher |-> f, cancellable |-> FALSE] :
        o \in {x \in AllOptions : /\ x.Workers = 1
                                  /\ x.QueueSize = MaxQueueSize
                                  /\ x.MaxURLs = MaxMaxURLs
                                  /\ \/ x.FollowBehavior = FollowAny
                                     \/ x.Cache = "none" /\ ~x.DefaultParser},
        f \in Fetchers}

CancelScenarios ==
    {[opts |-> o, fetcher |-> WebLinked, cancellable |-> TRUE] :
        o \in {x \in AllOptions : /\ x.FollowBehavior = FollowAny
                                  /\ x.Cache = "none"
                                  /\ ~x.DefaultParser
                                  /\ x.Workers = 1
                                  /\ x.QueueSize = 1
                                  /\ x.MaxURLs = MaxMaxURLs}}

\* Runs of one worker with a cap that lets a second page go through the loop of
\* queueDiscoveredURLs.
DeepScenarios ==
    {[opts |-> [MaxURLs |-> MaxMaxURLs + 1, Workers |-> 1, QueueSize |-> q,
                FollowBehavior |-> FollowAny, Cache |-> "none", Parsers |-> {HostA},
                DefaultParser |-> FALSE],
      fetcher |-> WebLinked, cancellable |-> FALSE] : q \in 1..MaxQueueSize}

\* Runs of a crawler built with QueueSize unset, as the crawl tests build it.
DefaultScenarios ==
    {[opts |-> [MaxURLs |-> MaxMaxURLs, Workers |-> 1, QueueSize |-> 0,
                FollowBehavior |-> b, Cache |-> "none", Parsers |-> {HostA},
                DefaultParser |-> FALSE],
      fetcher |-> f, cancellable |-> FALSE] :
        b \in {FollowNone, FollowSameDomain}, f \in Fetchers}

Scenarios ==
    PoolScenarios \cup PipelineScenarios \cup CancelScenarios \cup DeepScenarios
       \cup DefaultScenarios

\* The scenarios of the runs given more seeds than the cap, the workers and the
\* queue can take together, and the seeds they are given: four valid seeds of
\* different URLs.
CapScenarios ==
    {[opts |-> o, fetcher |-> f, cancellable |-> c] :
        o \in {x \in AllOptions : /\ x.FollowBehavior = FollowAny
                                  /\ x.Cache = "none"
                                  /\ ~x.DefaultParser
                                  /\ x.Workers = 1
                                  /\ x.QueueSize = 1},
        f \in Fetchers, c \in BOOLEAN}

CapSeedLists == {<<SeedA, SeedB, PageX, PageS>>}

\* The scenario of the runs that share one crawler, and the seeds they are given.
SharedScenario ==
    [opts |-> [MaxURLs |-> MaxMaxURLs, Workers |-> 1, QueueSize |-> 1,
               FollowBehavior |-> FollowAny, Cache |-> "none", Parsers |-> {HostA},
               DefaultParser |-> FALSE],
     fetcher |-> WebLinked, cancellable |-> FALSE]

SharedSeedLists == {<<SeedA>>}

(***************************************************************************)
(* package crawler: the pure helpers of the page pipeline                  *)
(***************************************************************************)
\* resolvePath of net/url: ref resolved against base, dot segments removed.
RECURSIVE ResolveElems(_, _, _)
ResolveElems(elems, dst, first) ==
    IF elems = <<>> THEN dst
    ELSE LET elem == Head(elems)
             str == Drop(dst, 2)
             index == LastIndex(str, <<"/">>)
             last == Len(elems) = 1
             tail == IF last /\ elem \in {<<".">>, <<".",".">>} THEN <<"/">> ELSE <<>>
         IN  IF elem = <<".">> THEN ResolveElems(Tail(elems), dst \o tail, FALSE)
             ELSE IF elem = <<".",".">>
                  THEN IF index = 0
                       THEN ResolveElems(Tail(elems), <<"/">> \o tail, TRUE)
                       ELSE ResolveElems(Tail(elems),
                                         <<"/">> \o SubSeq(str, 1, index - 1) \o tail, first)
             ELSE ResolveElems(Tail(elems),
                               dst \o (IF first THEN <<>> ELSE <<"/">>) \o elem, FALSE)

\* The path resolvePath works on: ref itself, or ref after the last slash of base.
JoinedPath(base, ref) ==
    IF ref = <<>> THEN base
    ELSE IF ref[1] # "/" THEN SubSeq(base, 1, LastIndex(base, <<"/">>)) \o ref
    ELSE ref

\* The end of resolvePath: one leading slash.
SingleSlash(r) == IF Len(r) > 1 /\ r[2] = "/" THEN Tail(r) ELSE r

ResolveFull(full) ==
    IF full = <<>> THEN <<>>
    ELSE SingleSlash(ResolveElems(Split(full, <<"/">>), <<"/">>, TRUE))

ResolvePath(base, ref) == ResolveFull(JoinedPath(base, ref))

\* URL.ResolveReference for a base that has a scheme and a host and no opaque part.
ResolveReference(u, ref) ==
    LET url == [ref EXCEPT !.Scheme = IF ref.Scheme = <<>> THEN u.Scheme ELSE ref.Scheme]
        keep == ref.Path = <<>> /\ ~ref.ForceQuery /\ ref.RawQuery = <<>>
    IN  IF ref.Scheme # <<>> \/ ref.Host # <<>>
        THEN SetPath(url, ResolvePath(EscapedPath(ref), <<>>))
        ELSE IF ref.Opaque # <<>> THEN [url EXCEPT !.Host = <<>>, !.Path = <<>>]
        ELSE SetPath([url EXCEPT !.Host = u.Host,
                                 !.RawQuery = IF keep THEN u.RawQuery ELSE ref.RawQuery,
                                 !.Fragment = IF keep /\ ref.Fragment = <<>>
                                              THEN u.Fragment ELSE ref.Fragment,
                                 !.RawFragment = IF keep /\ ref.Fragment = <<>>
                                                 THEN u.RawFragment ELSE ref.RawFragment],
                     ResolvePath(EscapedPath(u), EscapedPath(ref)))

NoLink == [ok |-> FALSE, url |-> <<>>]

\* The return of ResolveLink after NormalizeURL: the string of the normalized URL.
NormalizedLink(u) == IF ~u.ok THEN NoLink ELSE [ok |-> TRUE, url |-> URLString(u)]

\* ResolveLink, a link without a scheme: resolved against the page's domain.
ResolveRelative(baseURL, parsedURL) ==
    IF ~baseURL.ok THEN NoLink
    ELSE NormalizedLink(NormalizeURL(URLString(ResolveReference(baseURL, parsedURL))))

BaseDomain(domain) ==
    IF ~HasPrefix(domain, HTTPColonSlashSlash) /\ ~HasPrefix(domain, HTTPSColonSlashSlash)
    THEN HTTPSColonSlashSlash \o domain
    ELSE domain

\* ResolveLink, from the point where the fragment is cleared.
ResolveParsed(domain, parsedURL) ==
    IF parsedURL.Scheme # <<>>
    THEN IF parsedURL.Scheme # HTTP /\ parsedURL.Scheme # HTTP \o <<"s">> THEN NoLink
         ELSE NormalizedLink(NormalizeURL(URLString(parsedURL)))
    ELSE ResolveRelative(ParseURL(BaseDomain(domain)), parsedURL)

ClearFragment(parsed) ==
    IF ~parsed.ok THEN parsed ELSE [parsed EXCEPT !.Fragment = <<>>]

ResolveCleared(domain, parsedURL) ==
    IF ~parsedURL.ok THEN NoLink ELSE ResolveParsed(domain, parsedURL)

\* ResolveLink
ResolveLink(domain, value) == ResolveCleared(domain, ClearFragment(ParseURL(value)))

\* The links of a page that ResolveLink resolves, as the set extractURLs collects.
ResolvedLinks(links, domain) ==
    {r \in {ResolveLink(domain, links[i]) : i \in 1..Len(links)} : r.ok}

\* Crawler.extractURLs: the resolvable links, as a set, then sorted.
extractURLs(links, domain) == SortStrings({r.url : r \in ResolvedLinks(links, domain)})

\* The switch of Crawler.filterURLs on the follow behaviour, for one link u.
FollowAdmits(followBehavior, u, pageURL) ==
    CASE followBehavior = FollowAny -> TRUE
      [] followBehavior = FollowSameDomain -> AreSameHost(u, pageURL)
      [] followBehavior = FollowRelatedSubdomains -> AreRelatedHosts(u, pageURL)
      [] OTHER -> FALSE

\* One round of the loop of Crawler.filterURLs: a link that does not normalize is
\* skipped, the others go through the switch.
FilterKeeps(followBehavior, u, pageURL) ==
    u.ok /\ FollowAdmits(followBehavior, u, pageURL)

\* Crawler.filterURLs
filterURLs(followBehavior, pageURL, links) ==
    IF followBehavior = FollowNone THEN <<>>
    ELSE SelectSeq(links, LAMBDA rawURL :
                      FilterKeeps(followBehavior, NormalizeURL(rawURL), pageURL))

\* A dispatch that prefers the default parser.
DefaultFirst(parsers, defaultParser, domain) ==
    IF defaultParser THEN "default"
    ELSE IF domain \in parsers THEN "domain"
    ELSE "none"

\* Crawler.getParser: which parser serves a domain, "none" for (nil, false).
getParser(parsers, defaultParser, domain) ==
    IF domain \in parsers THEN "domain"
    ELSE IF defaultParser THEN "default"
    ELSE "none"

\* sync.Map.LoadOrStore(value, true): whether the key was present, and the map after.
LoadOrStore(m, value) == [exists |-> value \in m, map |-> m \cup {value}]

\* A cap test that lets one more URL through.
CapExceeded(processed, maxURLs) == processed > maxURLs

\* A cap test that stops nothing.
CapNever(processed, maxURLs) == FALSE

\* The cap test of worker and of queueDiscoveredURLs.
CapReached(processed, maxURLs) == processed >= maxURLs

\* A write-through that does not look at the markup.
WritesAnyMarkup(cacheOpt, html) == cacheOpt # "none"

\* Whether processURL writes the fetched markup to the cache: a cache is attached
\* and the markup is not empty.
WritesCache(cacheOpt, html) == cacheOpt # "none" /\ html

\* A lookup that never yields a response.
CacheMiss(cacheOpt, keys, rawURL) == FALSE

\* Whether the cache lookup of processURL yields a response.
CacheHit(cacheOpt, keys, rawURL) == cacheOpt # "none" /\ rawURL \in keys

(***************************************************************************)
(* The crawler as a state machine.                                         *)
(*                                                                         *)
(* Runs are the calls of Crawl on one crawler, numbered in the order they  *)
(* are made.  Each run has its own derived context, workers and idle       *)
(* monitor; the queue, the processedURLs map, the counters, activeWorkers  *)
(* and the running flag are fields of the crawler and shared by all runs.  *)
(* The one-second ticker of the idle monitor and the request delay carry   *)
(* no timing here: a tick may come between any two steps.                  *)
(***************************************************************************)
VARIABLES
    opts,           \* the Options the crawler was built with
    fetcher,        \* the pages of opts.Fetcher
    cancellable,    \* whether the context the caller passes can be cancelled
    callers,        \* how Crawl is called: "once"; "sequential", again after it returned
                    \* and with the same seeds; "concurrent", from separate goroutines
    processedURLs,  \* Crawler.processedURLs: the keys of the sync.Map
    queue,          \* Crawler.queue: the buffered items of the channel
    closed,         \* whether close(c.queue) has run
    activeWorkers,  \* Crawler.activeWorkers
    stats,          \* Crawler.stats: processed, succeeded, failed
    running,        \* Crawler.running
    cache,          \* the keys opts.Cache holds
    crawl,          \* per run: the position of the Crawl call and its locals
    ctx,            \* per run: the derived context and the caller's context
    worker,         \* per run and worker: the position of the goroutine and its locals
    monitor,        \* per run: the idle monitor goroutine
    panicked,       \* a goroutine panicked: the process is gone
    callbacks,      \* history: bag of the callback invocations, [url, err]
    pushed,         \* history: bag of the URLs sent on the queue
    fetched,        \* history: bag of the URLs the fetcher was invoked for
    cacheHits,      \* history: the URLs whose cache lookup gave a response
    parsed,         \* history: the parser invocations, [url, parser]
    cacheSets,      \* history: the keys cache.Set was called with
    call,           \* a call of one of the pure functions: its name and arguments
    result          \* what that call returned, once it has

vars ==
    <<opts, fetcher, cancellable, callers, processedURLs, queue, closed, activeWorkers, stats, running,
      cache, crawl, ctx, worker, monitor, panicked, callbacks, pushed, fetched, cacheHits,
      parsed, cacheSets, call, result>>

Runs == 1..MaxRuns

Range(f) == {f[i] : i \in DOMAIN f}

WorkerIds == 1..MaxWorkers

NoWorker ==
    [pc |-> "none", rawURL |-> <<>>, Links |-> <<>>, urls |-> <<>>, k |-> 0, next |-> <<>>,
     live |-> FALSE, called |-> FALSE]

\* A worker goroutine at the select of its loop.
AtSelect == [NoWorker EXCEPT !.pc = "select"]

Exited == [NoWorker EXCEPT !.pc = "exited"]

NoCall == [pc |-> "idle", urls |-> <<>>, i |-> 0, queued |-> 0, value |-> <<>>, err |-> "none"]

\* The capacity New gives the queue when Options.QueueSize is not positive.
DefaultQueueSize == 10000

\* New: the crawler after construction.
New(o, f) ==
    /\ opts = [o EXCEPT !.QueueSize = IF o.QueueSize <= 0 THEN DefaultQueueSize
                                     ELSE o.QueueSize]
    /\ fetcher = f
    /\ processedURLs = {}
    /\ queue = <<>>
    /\ closed = FALSE
    /\ activeWorkers = 0
    /\ stats = [processed |-> 0, succeeded |-> 0, failed |-> 0]
    /\ running = FALSE
    /\ cache = IF o.Cache = "warm" THEN {PageA} ELSE {}
    /\ crawl = [r \in Runs |-> NoCall]
    /\ ctx = [r \in Runs |-> [done |-> FALSE, parent |-> FALSE, early |-> FALSE]]
    /\ worker = [r \in Runs |-> [w \in WorkerIds |-> NoWorker]]
    /\ monitor = [r \in Runs |-> "none"]
    /\ panicked = FALSE
    /\ callbacks = EmptyBag
    /\ pushed = EmptyBag
    /\ fetched = EmptyBag
    /\ cacheHits = {}
    /\ parsed = {}
    /\ cacheSets = {}

NoPureCall ==
    /\ call = [fn |-> "none"]
    /\ result = [done |-> FALSE, value |-> <<>>]

Init ==
    /\ callers = "once"
    /\ NoPureCall
    /\ \E s \in Scenarios :
          /\ cancellable = s.cancellable
          /\ New(s.opts, s.fetcher)

\* Two Crawl calls on one crawler from separate goroutines.
InitConcurrent ==
    /\ callers = "concurrent"
    /\ NoPureCall
    /\ cancellable = SharedScenario.cancellable
    /\ New(SharedScenario.opts, SharedScenario.fetcher)

\* Two Crawl calls on one crawler, the second made after the first has returned.
InitSequential ==
    /\ callers = "sequential"
    /\ NoPureCall
    /\ cancellable = SharedScenario.cancellable
    /\ New(SharedScenario.opts, SharedScenario.fetcher)

\* One Crawl call with more seeds than the run can take.
InitCap ==
    /\ callers = "capped"
    /\ NoPureCall
    /\ \E s \in CapScenarios :
          /\ cancellable = s.cancellable
          /\ New(s.opts, s.fetcher)

history == <<callbacks, pushed, fetched, cacheHits, parsed, cacheSets>>

config == <<opts, fetcher, cancellable, callers, call, result>>

\* The cases of a select statement that can proceed; Go picks any one of them.
\* A send or a receive on a closed channel can always proceed.
Ready(case, able) == IF able THEN {case} ELSE {}

CanSend == closed \/ Len(queue) < opts.QueueSize

CanReceive == closed \/ queue # <<>>

\* The pages a run still owes: its workers that have not exited.
WorkersDone(r) == \A w \in WorkerIds : worker[r][w].pc \in {"none", "exited"}

(***************************************************************************)
(* Crawler.Crawl                                                           *)
(***************************************************************************)
\* The call and its test of c.running.
CrawlCall(r) ==
    /\ ~panicked
    /\ crawl[r].pc = "idle"
    /\ IF r = 1 THEN TRUE
       ELSE IF callers = "concurrent" THEN crawl[r - 1].pc # "idle"
       ELSE IF callers = "sequential" THEN crawl[r - 1].pc = "returned"
       ELSE FALSE
    /\ \E urls \in IF callers = "once" THEN SeedLists
                   ELSE IF callers = "capped" THEN CapSeedLists
                   ELSE IF r = 1 THEN SharedSeedLists
                   ELSE {crawl[1].urls} :
          crawl' = [crawl EXCEPT ![r] =
                      IF running
                      THEN [NoCall EXCEPT !.pc = "returned", !.urls = urls,
                                          !.err = "already_running"]
                      ELSE [NoCall EXCEPT !.pc = "start", !.urls = urls]]
    /\ UNCHANGED <<config, processedURLs, queue, closed, activeWorkers, stats, running,
                   cache, ctx, worker, monitor, panicked, history>>

\* c.running = true, the derived context, the workers and the idle monitor.
CrawlStart(r) ==
    /\ ~panicked
    /\ crawl[r].pc = "start"
    /\ running' = TRUE
    /\ worker' = [worker EXCEPT ![r] =
                    [w \in WorkerIds |-> IF w <= opts.Workers THEN AtSelect ELSE NoWorker]]
    /\ monitor' = [monitor EXCEPT ![r] = "running"]
    /\ crawl' = [crawl EXCEPT ![r].pc = "enqueue", ![r].i = 1]
    /\ UNCHANGED <<config, processedURLs, queue, closed, activeWorkers, stats, cache, ctx,
                   panicked, history>>

\* What Crawl does once enqueue has left its loop or returned.
AfterEnqueue(c, err) ==
    IF err # "nil" THEN [c EXCEPT !.pc = "return", !.err = err]
    ELSE IF c.queued = 0 THEN [c EXCEPT !.pc = "return", !.err = "nil"]
    ELSE [c EXCEPT !.pc = "wait"]

\* Crawler.enqueue for a seed that NormalizeURL has handled: the error return, or
\* LoadOrStore and the way to the select.
AdmitSeed(r, c, url) ==
    LET value == URLString(url)
        los == LoadOrStore(processedURLs, value)
    IN  IF ~url.ok
        THEN /\ crawl' = [crawl EXCEPT ![r] = AfterEnqueue(c, "invalid_url")]
             /\ UNCHANGED processedURLs
        ELSE /\ processedURLs' = los.map
             /\ crawl' = [crawl EXCEPT ![r] =
                            IF los.exists THEN [c EXCEPT !.i = c.i + 1]
                            ELSE [c EXCEPT !.pc = "send", !.value = value]]

\* One iteration of the loop of Crawler.enqueue up to its select.
EnqueueNext(r) ==
    LET c == crawl[r]
    IN  /\ ~panicked
        /\ c.pc = "enqueue"
        /\ IF c.i > Len(c.urls)
           THEN /\ crawl' = [crawl EXCEPT ![r] = AfterEnqueue(c, "nil")]
                /\ UNCHANGED processedURLs
           ELSE AdmitSeed(r, c, NormalizeURL(c.urls[c.i]))
        /\ UNCHANGED <<config, queue, closed, activeWorkers, stats, running, cache, ctx,
                       worker, monitor, panicked, history>>

\* The select of Crawler.enqueue: send the seed, or give up on ctx.Done.
EnqueueSend(r) ==
    LET c == crawl[r]
    IN  /\ ~panicked
        /\ c.pc = "send"
        /\ \E case \in Ready("send", CanSend) \cup Ready("done", ctx[r].done) :
              IF case = "done"
              THEN /\ crawl' = [crawl EXCEPT ![r] =
                                  AfterEnqueue([c EXCEPT !.value = <<>>], "context_canceled")]
                   /\ UNCHANGED <<queue, pushed, panicked>>
              ELSE IF closed
              THEN /\ panicked' = TRUE
                   /\ UNCHANGED <<queue, pushed, crawl>>
              ELSE /\ queue' = Append(queue, c.value)
                   /\ pushed' = pushed (+) SetToBag({c.value})
                   /\ crawl' = [crawl EXCEPT ![r] =
                                  [c EXCEPT !.pc = "enqueue", !.i = c.i + 1,
                                            !.queued = c.queued + 1, !.value = <<>>]]
                   /\ UNCHANGED panicked
        /\ UNCHANGED <<config, processedURLs, closed, activeWorkers, stats, running, cache,
                       ctx, worker, monitor, callbacks, fetched, cacheHits, parsed,
                       cacheSets>>

\* wg.Wait returns once every worker of the run has called wg.Done.
CrawlWait(r) ==
    /\ ~panicked
    /\ crawl[r].pc = "wait"
    /\ WorkersDone(r)
    /\ crawl' = [crawl EXCEPT ![r].pc = "return", ![r].err = "nil"]
    /\ UNCHANGED <<config, processedURLs, queue, closed, activeWorkers, stats, running,
                   cache, ctx, worker, monitor, panicked, history>>

\* The deferred calls of Crawl run last registered first.  The first is
\* close(c.queue); closing a closed channel panics.
CrawlCloseQueue(r) ==
    /\ ~panicked
    /\ crawl[r].pc = "return"
    /\ IF closed
       THEN /\ panicked' = TRUE
            /\ UNCHANGED <<closed, crawl>>
       ELSE /\ closed' = TRUE
            /\ crawl' = [crawl EXCEPT ![r].pc = "clear"]
            /\ UNCHANGED panicked
    /\ UNCHANGED <<config, processedURLs, queue, activeWorkers, stats, running, cache, ctx,
                   worker, monitor, history>>

\* The second deferred call, its first statement: c.running = false.
CrawlClearRunning(r) ==
    /\ ~panicked
    /\ crawl[r].pc = "clear"
    /\ running' = FALSE
    /\ crawl' = [crawl EXCEPT ![r].pc = "cancel"]
    /\ UNCHANGED <<config, processedURLs, queue, closed, activeWorkers, stats, cache, ctx,
                   worker, monitor, panicked, history>>

\* The second deferred call, its last statement: cancel().  Crawl has returned.
CrawlReturn(r) ==
    /\ ~panicked
    /\ crawl[r].pc = "cancel"
    /\ ctx' = [ctx EXCEPT ![r].done = TRUE]
    /\ crawl' = [crawl EXCEPT ![r].pc = "returned"]
    /\ UNCHANGED <<config, processedURLs, queue, closed, activeWorkers, stats, running,
                   cache, worker, monitor, panicked, history>>

\* The caller cancels the context it passed to Crawl.  The field early records
\* that the cancellation came before any seed of the run had been queued.
CancelContext(r) ==
    /\ ~panicked
    /\ cancellable
    /\ crawl[r].pc \in {"start", "enqueue", "send", "wait"}
    /\ ~ctx[r].parent
    /\ ctx' = [ctx EXCEPT ![r] = [done |-> TRUE, parent |-> TRUE,
                                  early |-> crawl[r].queued = 0]]
    /\ UNCHANGED <<config, processedURLs, queue, closed, activeWorkers, stats, running,
                   cache, crawl, worker, monitor, panicked, history>>

(***************************************************************************)
(* Crawler.worker and Crawler.processURL                                   *)
(***************************************************************************)
\* The parser processURL picks for the page: "domain", "default" or "none".
ParserFor(rawURL) ==
    getParser(opts.Parsers, opts.DefaultParser, Hostname(ParseURL(rawURL)))

\* The call of Parse that processURL makes for the page, if it makes one.
ParserCalls(rawURL) ==
    IF ParserFor(rawURL) = "none" THEN {}
    ELSE {[url |-> rawURL, parser |-> ParserFor(rawURL)]}

SetWorker(r, w, rec) == worker' = [worker EXCEPT ![r][w] = rec]

\* The select of the worker loop: leave on ctx.Done, or receive from the queue
\* (a closed and drained queue gives ok = false and the worker leaves).
WorkerSelect(r, w) ==
    /\ ~panicked
    /\ worker[r][w].pc = "select"
    /\ \E case \in Ready("done", ctx[r].done) \cup Ready("receive", CanReceive) :
          IF case = "receive" /\ queue # <<>>
          THEN /\ queue' = Tail(queue)
               /\ SetWorker(r, w, [AtSelect EXCEPT !.pc = "cap", !.rawURL = Head(queue)])
          ELSE /\ SetWorker(r, w, Exited)
               /\ UNCHANGED queue
    /\ UNCHANGED <<config, processedURLs, closed, activeWorkers, stats, running, cache,
                   crawl, ctx, monitor, panicked, history>>

\* The test of the processed count against MaxURLs after a receive.
WorkerCheckCap(r, w) ==
    /\ ~panicked
    /\ worker[r][w].pc = "cap"
    /\ SetWorker(r, w, IF CapReached(stats.processed, opts.MaxURLs) THEN Exited
                       ELSE [worker[r][w] EXCEPT !.pc = "active"])
    /\ UNCHANGED <<config, processedURLs, queue, closed, activeWorkers, stats, running,
                   cache, crawl, ctx, monitor, panicked, history>>

\* incrementActiveWorkers, before the call of processURL.
WorkerIncrement(r, w) ==
    /\ ~panicked
    /\ worker[r][w].pc = "active"
    /\ activeWorkers' = activeWorkers + 1
    /\ SetWorker(r, w, [worker[r][w] EXCEPT !.pc = "begin"])
    /\ UNCHANGED <<config, processedURLs, queue, closed, stats, running, cache, crawl, ctx,
                   monitor, panicked, history>>

\* decrementActiveWorkers, after processURL has returned; the worker is back at
\* its select.
WorkerDecrement(r, w) ==
    /\ ~panicked
    /\ worker[r][w].pc = "leave"
    /\ activeWorkers' = activeWorkers - 1
    /\ SetWorker(r, w, AtSelect)
    /\ UNCHANGED <<config, processedURLs, queue, closed, stats, running, cache, crawl, ctx,
                   monitor, panicked, history>>

\* The head of processURL: IncrementProcessed and url.Parse.  When the URL does
\* not parse processURL returns at once.  The lookup in the cache comes next when
\* a cache is attached, the fetch when none is.  The field live records that the
\* run's context was not cancelled when the processing of the URL began.
ProcessBegin(r, w) ==
    /\ ~panicked
    /\ worker[r][w].pc = "begin"
    /\ stats' = [stats EXCEPT !.processed = @ + 1]
    /\ IF ParseURL(worker[r][w].rawURL).ok
       THEN SetWorker(r, w, [worker[r][w] EXCEPT
                                !.pc = IF opts.Cache = "none" THEN "fetch" ELSE "cache",
                                !.live = ~ctx[r].done])
       ELSE SetWorker(r, w, [worker[r][w] EXCEPT !.pc = "leave"])
    /\ UNCHANGED <<config, processedURLs, queue, closed, activeWorkers, running, cache,
                   crawl, ctx, monitor, panicked, history>>

\* The response processURL builds on a cache hit: the URL and the cached markup,
\* and no links.
CachedResponse(rawURL) == [err |-> FALSE, HTML |-> TRUE, Links |-> <<>>]

\* c.cache.Get: on a hit the response is built from the cached markup and nothing
\* is fetched.
ProcessCacheGet(r, w) ==
    LET me == worker[r][w]
    IN  /\ ~panicked
        /\ me.pc = "cache"
        /\ IF CacheHit(opts.Cache, cache, me.rawURL)
           THEN /\ cacheHits' = cacheHits \cup {me.rawURL}
                /\ SetWorker(r, w, [me EXCEPT !.pc = "parse",
                                              !.Links = CachedResponse(me.rawURL).Links])
           ELSE /\ SetWorker(r, w, [me EXCEPT !.pc = "fetch"])
                /\ UNCHANGED cacheHits
        /\ UNCHANGED <<config, processedURLs, queue, closed, activeWorkers, stats, running,
                       cache, crawl, ctx, monitor, panicked, callbacks, pushed, fetched,
                       parsed, cacheSets>>

\* c.fetcher.Fetch, when the cache gave nothing.  The markup fetched is written to
\* the cache next when a cache is attached and the markup is not empty.
ProcessFetch(r, w) ==
    LET me == worker[r][w]
        response == Fetch(fetcher, me.rawURL)
    IN  /\ ~panicked
        /\ me.pc = "fetch"
        /\ fetched' = fetched (+) SetToBag({me.rawURL})
        /\ IF response.err
           THEN SetWorker(r, w, [me EXCEPT !.pc = "callback_err"])
           ELSE SetWorker(r, w, [me EXCEPT
                                    !.pc = IF WritesCache(opts.Cache, response.HTML)
                                           THEN "cache_set" ELSE "parse",
                                    !.Links = response.Links])
        /\ UNCHANGED <<config, processedURLs, queue, closed, activeWorkers, stats, running,
                       cache, crawl, ctx, monitor, panicked, callbacks, pushed, cacheHits,
                       parsed, cacheSets>>

\* c.cache.Set, which may fail: the failure is logged and the page goes on.
ProcessCacheSet(r, w) ==
    LET me == worker[r][w]
    IN  /\ ~panicked
        /\ me.pc = "cache_set"
        /\ cacheSets' = cacheSets \cup {me.rawURL}
        /\ \E stored \in BOOLEAN :
              cache' = IF stored THEN cache \cup {me.rawURL} ELSE cache
        /\ SetWorker(r, w, [me EXCEPT !.pc = "parse"])
        /\ UNCHANGED <<config, processedURLs, queue, closed, activeWorkers, stats, running,
                       crawl, ctx, monitor, panicked, callbacks, pushed, fetched, cacheHits,
                       parsed>>

\* A failure path that hands the missing response to the parser all the same.
ParseAfterFetchError(r, w) ==
    /\ ~panicked
    /\ worker[r][w].pc = "callback_err"
    /\ callbacks' = callbacks (+) SetToBag({[url |-> worker[r][w].rawURL, err |-> "fetch"]})
    /\ parsed' = parsed \cup ParserCalls(worker[r][w].rawURL)
    /\ SetWorker(r, w, [worker[r][w] EXCEPT !.pc = "failed", !.called = TRUE])
    /\ UNCHANGED <<config, processedURLs, queue, closed, activeWorkers, stats, running,
                   cache, crawl, ctx, monitor, panicked, pushed, fetched, cacheHits,
                   cacheSets>>

\* callback(ctx, req, nil, err) after a failed fetch.
ProcessCallbackErr(r, w) ==
    /\ ~panicked
    /\ worker[r][w].pc = "callback_err"
    /\ callbacks' = callbacks (+) SetToBag({[url |-> worker[r][w].rawURL, err |-> "fetch"]})
    /\ SetWorker(r, w, [worker[r][w] EXCEPT !.pc = "failed", !.called = TRUE])
    /\ UNCHANGED <<config, processedURLs, queue, closed, activeWorkers, stats, running,
                   cache, crawl, ctx, monitor, panicked, pushed, fetched, cacheHits, parsed,
                   cacheSets>>

\* IncrementFailed and the return of processURL.
ProcessFailed(r, w) ==
    /\ ~panicked
    /\ worker[r][w].pc = "failed"
    /\ stats' = [stats EXCEPT !.failed = @ + 1]
    /\ SetWorker(r, w, [worker[r][w] EXCEPT !.pc = "leave"])
    /\ UNCHANGED <<config, processedURLs, queue, closed, activeWorkers, running, cache,
                   crawl, ctx, monitor, panicked, history>>

\* Where processURL stands once the loop of queueDiscoveredURLs is over: at the
\* select that ends queueDiscoveredURLs, whatever next holds.
AfterLoop(me) == [me EXCEPT !.pc = "send"]

\* The URLs processURL hands to queueDiscoveredURLs: extractURLs on the links of the
\* page, then filterURLs.
FilteredURLs(followBehavior, parsedURL, links) ==
    filterURLs(followBehavior, parsedURL, extractURLs(links, Hostname(parsedURL)))

\* Whether the parser processURL picks for the page fails on it.
ParseFails(rawURL) ==
    /\ getParser(opts.Parsers, opts.DefaultParser, Hostname(ParseURL(rawURL))) # "none"
    /\ rawURL \in ParserFailsOn

\* A processURL that would give up the links of a page its parser failed on.
SkipLoopOnParseError(me, filteredURLs) ==
    LET kept == IF ParseFails(me.rawURL) THEN <<>> ELSE filteredURLs
        loop == [me EXCEPT !.pc = "queue", !.Links = <<>>, !.urls = kept, !.k = 1]
    IN  IF kept = <<>> THEN AfterLoop(loop) ELSE loop

\* The worker as it enters the loop of queueDiscoveredURLs.
EnterLoop(me, filteredURLs) ==
    LET loop == [me EXCEPT !.pc = "queue", !.Links = <<>>, !.urls = filteredURLs, !.k = 1]
    IN  IF filteredURLs = <<>> THEN AfterLoop(loop) ELSE loop

\* A processURL that offers the links of the page before it invokes the callback.
LinksBeforeCallback(r, w) ==
    LET me == worker[r][w]
    IN  /\ ~panicked
        /\ me.pc = "callback"
        /\ SetWorker(r, w, EnterLoop(me, FilteredURLs(opts.FollowBehavior,
                                                      ParseURL(me.rawURL), me.Links)))
        /\ UNCHANGED <<config, processedURLs, queue, closed, activeWorkers, stats, running,
                       cache, crawl, ctx, monitor, panicked, history>>

\* getParser and, when a parser serves the domain, parser.Parse; a parse error is
\* logged and the page goes on.
ProcessParse(r, w) ==
    LET me == worker[r][w]
    IN  /\ ~panicked
        /\ me.pc = "parse"
        /\ parsed' = parsed \cup ParserCalls(me.rawURL)
        /\ SetWorker(r, w, [me EXCEPT !.pc = "callback"])
        /\ UNCHANGED <<config, processedURLs, queue, closed, activeWorkers, stats, running,
                       cache, crawl, ctx, monitor, panicked, callbacks, pushed, fetched,
                       cacheHits, cacheSets>>

\* extractURLs, the callback with what the parser returned, and filterURLs.  The
\* field called records that the callback has been invoked for the URL the worker
\* holds.
ProcessCallback(r, w) ==
    LET me == worker[r][w]
    IN  /\ ~panicked
        /\ me.pc = "callback"
        /\ callbacks' = callbacks (+) SetToBag({[url |-> me.rawURL,
                                                err |-> IF ParseFails(me.rawURL)
                                                        THEN "parse" ELSE "nil"]})
        /\ SetWorker(r, w, EnterLoop([me EXCEPT !.called = TRUE],
                                     FilteredURLs(opts.FollowBehavior, ParseURL(me.rawURL),
                                                  me.Links)))
        /\ UNCHANGED <<config, processedURLs, queue, closed, activeWorkers, stats, running,
                       cache, crawl, ctx, monitor, panicked, pushed, fetched, cacheHits,
                       parsed, cacheSets>>

\* The worker after one iteration of the loop of queueDiscoveredURLs.
LoopStep(me, next) ==
    IF me.k + 1 > Len(me.urls)
    THEN AfterLoop([me EXCEPT !.k = me.k + 1, !.next = next])
    ELSE [me EXCEPT !.pc = "queue", !.k = me.k + 1, !.next = next]

\* The loop of queueDiscoveredURLs for a URL that NormalizeURL has handled: skipped
\* on an error, else LoadOrStore and the append to next.
AdmitDiscovered(r, w, me, u) ==
    LET rawURL == URLString(u)
        los == LoadOrStore(processedURLs, rawURL)
    IN  IF ~u.ok
        THEN /\ SetWorker(r, w, LoopStep(me, me.next))
             /\ UNCHANGED processedURLs
        ELSE /\ processedURLs' = los.map
             /\ SetWorker(r, w, LoopStep(me, IF los.exists THEN me.next
                                             ELSE Append(me.next, rawURL)))

\* The head of an iteration of the loop of queueDiscoveredURLs: the read of the
\* processed count.  Reaching the cap returns from queueDiscoveredURLs.
ProcessQueueLoop(r, w) ==
    LET me == worker[r][w]
    IN  /\ ~panicked
        /\ me.pc = "queue"
        /\ SetWorker(r, w, [me EXCEPT !.pc = IF CapReached(stats.processed, opts.MaxURLs)
                                             THEN "succeeded" ELSE "admit"])
        /\ UNCHANGED <<config, processedURLs, queue, closed, activeWorkers, stats, running,
                       cache, crawl, ctx, monitor, panicked, history>>

\* The rest of the iteration: NormalizeURL, LoadOrStore and the append to next.
ProcessQueueAdmit(r, w) ==
    LET me == worker[r][w]
    IN  /\ ~panicked
        /\ me.pc = "admit"
        /\ AdmitDiscovered(r, w, me, NormalizeURL(me.urls[me.k]))
        /\ UNCHANGED <<config, queue, closed, activeWorkers, stats, running, cache, crawl,
                       ctx, monitor, panicked, history>>

\* A select with no default case: it waits until one of its cases is ready.
SelectBlocking(cases) == cases

\* A select with a default case: one of the ready cases, the default when none is.
SelectWithDefault(cases) == IF cases = {} THEN {"default"} ELSE cases

\* The values urlStr may have in the send case of the select.  The source declares
\* urlStr nowhere and binds it neither to the loop nor to next, so the code does
\* not decide the value sent: it may be a URL the crawler has seen (every entry of
\* next is one, and so is every URL that was pushed, dequeued or dropped before),
\* the empty string, or any other string, of which one that url.Parse rejects
\* stands here.
SendValues(seen) == seen \cup {<<>>, <<"%">>}

\* The select that ends queueDiscoveredURLs.  It stands after the loop and runs
\* once, also when next is empty; a send that is chosen puts one value on the
\* queue, whatever LoadOrStore answered for it.  A send on a closed channel panics
\* whatever the value.  The default case is taken only when no other case can
\* proceed.
ProcessSend(r, w) ==
    LET me == worker[r][w]
        cases == Ready("send", CanSend) \cup Ready("done", ctx[r].done)
    IN  /\ ~panicked
        /\ me.pc = "send"
        /\ \E urlStr \in SendValues(processedURLs), case \in SelectWithDefault(cases) :
              IF case = "send" /\ closed
              THEN /\ panicked' = TRUE
                   /\ UNCHANGED <<queue, pushed, worker>>
              ELSE /\ IF case = "send"
                      THEN /\ queue' = Append(queue, urlStr)
                           /\ pushed' = pushed (+) SetToBag({urlStr})
                      ELSE UNCHANGED <<queue, pushed>>
                   /\ SetWorker(r, w, [me EXCEPT !.pc = "succeeded"])
                   /\ UNCHANGED panicked
        /\ UNCHANGED <<config, processedURLs, closed, activeWorkers, stats, running, cache,
                       crawl, ctx, monitor, callbacks, fetched, cacheHits, parsed,
                       cacheSets>>

\* IncrementSucceeded and the return of processURL.
ProcessSucceeded(r, w) ==
    /\ ~panicked
    /\ worker[r][w].pc = "succeeded"
    /\ stats' = [stats EXCEPT !.succeeded = @ + 1]
    /\ SetWorker(r, w, [worker[r][w] EXCEPT !.pc = "leave"])
    /\ UNCHANGED <<config, processedURLs, queue, closed, activeWorkers, running, cache,
                   crawl, ctx, monitor, panicked, history>>

(***************************************************************************)
(* Crawler.idleMonitor                                                     *)
(***************************************************************************)
\* The two reads of the monitor's idle test, which are separate atomic operations.
NoActiveWorkers(active) == active = 0

QueueEmpty(q) == Len(q) = 0

\* The select of the monitor: leave on ctx.Done; at a tick, read the count of active
\* workers (a tick that finds one changes nothing).
MonitorStep(r) ==
    /\ ~panicked
    /\ monitor[r] = "running"
    /\ ctx[r].done \/ NoActiveWorkers(activeWorkers)
    /\ monitor' = [monitor EXCEPT ![r] = IF ctx[r].done THEN "exited" ELSE "ticked"]
    /\ UNCHANGED <<config, processedURLs, queue, closed, activeWorkers, stats, running,
                   cache, crawl, ctx, worker, panicked, history>>

\* The second read of the idle test, len(c.queue) == 0: with an empty queue the
\* monitor goes on to cancel, else it goes back to its select.
MonitorCheckQueue(r) ==
    /\ ~panicked
    /\ monitor[r] = "ticked"
    /\ monitor' = [monitor EXCEPT ![r] = IF QueueEmpty(queue) THEN "idle" ELSE "running"]
    /\ UNCHANGED <<config, processedURLs, queue, closed, activeWorkers, stats, running,
                   cache, crawl, ctx, worker, panicked, history>>

\* cancel() and the return of the monitor that found the crawler idle.
MonitorCancel(r) ==
    /\ ~panicked
    /\ monitor[r] = "idle"
    /\ monitor' = [monitor EXCEPT ![r] = "exited"]
    /\ ctx' = [ctx EXCEPT ![r].done = TRUE]
    /\ UNCHANGED <<config, processedURLs, queue, closed, activeWorkers, stats, running,
                   cache, crawl, worker, panicked, history>>

\* The steps of Crawl, of the caller and of the idle monitor of a run.
RunStep(r) ==
    \/ CrawlCall(r)
    \/ CrawlStart(r)
    \/ EnqueueNext(r)
    \/ EnqueueSend(r)
    \/ CrawlWait(r)
    \/ CrawlCloseQueue(r)
    \/ CrawlClearRunning(r)
    \/ CrawlReturn(r)
    \/ MonitorStep(r)
    \/ MonitorCheckQueue(r)
    \/ MonitorCancel(r)

\* The steps of a worker, those on the cache aside.
WorkerStep(r, w) ==
    \/ WorkerSelect(r, w)
    \/ WorkerCheckCap(r, w)
    \/ WorkerIncrement(r, w)
    \/ ProcessBegin(r, w)
    \/ ProcessFetch(r, w)
    \/ ProcessCallbackErr(r, w)
    \/ ProcessFailed(r, w)
    \/ ProcessParse(r, w)
    \/ ProcessCallback(r, w)
    \/ ProcessQueueLoop(r, w)
    \/ ProcessQueueAdmit(r, w)
    \/ ProcessSend(r, w)
    \/ ProcessSucceeded(r, w)
    \/ WorkerDecrement(r, w)

\* The steps of a worker on the cache, which a crawler built without a cache never
\* takes.
CacheStep(r, w) ==
    \/ ProcessCacheGet(r, w)
    \/ ProcessCacheSet(r, w)

Next ==
    \/ \E r \in Runs : RunStep(r)
    \/ \E r \in Runs : CancelContext(r)
    \/ \E r \in Runs, w \in WorkerIds : WorkerStep(r, w)
    \/ \E r \in Runs, w \in WorkerIds : CacheStep(r, w)

\* The steps of a crawler built without a cache.
NextUncached ==
    \/ \E r \in Runs : RunStep(r)
    \/ \E r \in Runs : CancelContext(r)
    \/ \E r \in Runs, w \in WorkerIds : WorkerStep(r, w)

\* The steps of a crawler built without a cache whose callers pass
\* context.Background(), which nothing cancels.
NextBackground ==
    \/ \E r \in Runs : RunStep(r)
    \/ \E r \in Runs, w \in WorkerIds : WorkerStep(r, w)

Spec == Init /\ [][Next]_vars

SpecConcurrent == InitConcurrent /\ [][NextBackground]_vars

SpecSequential == InitSequential /\ [][NextBackground]_vars

SpecCap == InitCap /\ [][NextUncached]_vars

(***************************************************************************)
(* Crawler.filterURLs on its own: one call, on a page and a list of links  *)
(* whose hosts are given as lists of labels.                               *)
(***************************************************************************)
MaxLinks == 2

\* Hosts as lists of dot-separated labels: a.co, s.a.co, b.co, l, co and a.co:8.
PolicyHosts ==
    {<< <<"a">>, <<"c","o">> >>,
     << <<"s">>, <<"a">>, <<"c","o">> >>,
     << <<"b">>, <<"c","o">> >>,
     << <<"l">> >>,
     << <<"c","o">> >>,
     << <<"a">>, <<"c","o",":","8">> >>}

PolicyPaths == {<<>>, <<"/","x">>}

\* A link or a page of the call: its host labels and its path.
PolicyLinks == [host : PolicyHosts, path : PolicyPaths]

PolicyURL(link) == HTTPSColonSlashSlash \o Join(link.host, <<".">>) \o link.path

PolicyCalls ==
    [fn : {"filterURLs"}, followBehavior : FollowBehaviors, page : PolicyLinks,
     links : SeqsUpTo(PolicyLinks, MaxLinks)]

InitPolicy ==
    /\ callers = "once"
    /\ cancellable = FALSE
    /\ New(SharedScenario.opts, SharedScenario.fetcher)
    /\ call \in PolicyCalls
    /\ result = [done |-> FALSE, value |-> <<>>]

\* The call filterURLs(pageURL, links) of processURL, pageURL being url.Parse of the
\* page's URL.
ApplyFilterURLs ==
    /\ call.fn = "filterURLs"
    /\ ~result.done
    /\ result' = [done |-> TRUE,
                  value |-> filterURLs(call.followBehavior, ParseURL(PolicyURL(call.page)),
                                       [i \in 1..Len(call.links) |->
                                           PolicyURL(call.links[i])])]
    /\ UNCHANGED <<opts, fetcher, cancellable, callers, call, processedURLs, queue, closed,
                   activeWorkers, stats, running, cache, crawl, ctx, worker, monitor,
                   panicked, history>>

NextPolicy == ApplyFilterURLs

SpecPolicy == InitPolicy /\ [][NextPolicy]_vars

(***************************************************************************)
(* ResolveLink on its own: one call, on a page's domain and a link given   *)
(* by its parts.                                                           *)
(***************************************************************************)
\* The domain argument is a bare host, as processURL passes it, or a host with a
\* scheme, as TestResolveLink also passes it.  The link is given by its parts:
\* scheme (without its colon), authority (without its slashes), path, query
\* (without its question mark), fragment (without its hash).
ResolveCalls ==
    [fn : {"ResolveLink"},
     domain : {HostA, HTTPSColonSlashSlash \o HostA, HTTPColonSlashSlash \o HostA},
     scheme : {<<>>, HTTP, <<"h","t","t","p","s">>, <<"f","t","p">>,
               <<"m","a","i","l","t","o">>},
     authority : {<<>>, <<"x",".","c","o">>},
     path : {<<>>, <<"/">>, <<"/","p">>, <<"p">>, <<"p"," ","q">>,
             <<"%","4","7"," ","x">>},
     query : {<<>>, <<"q">>},
     fragment : {<<>>, <<"f">>}]

\* The text of a link with these parts.
LinkText(c) ==
    (IF c.scheme = <<>> THEN <<>> ELSE c.scheme \o <<":">>)
    \o (IF c.authority = <<>> THEN <<>> ELSE <<"/","/">> \o c.authority)
    \o c.path
    \o (IF c.query = <<>> THEN <<>> ELSE <<"?">> \o c.query)
    \o (IF c.fragment = <<>> THEN <<>> ELSE <<"#">> \o c.fragment)

InitResolve ==
    /\ callers = "once"
    /\ cancellable = FALSE
    /\ New(SharedScenario.opts, SharedScenario.fetcher)
    /\ call \in ResolveCalls
    /\ result = [done |-> FALSE, value |-> <<>>]

\* The call ResolveLink(domain, link.URL) of extractURLs.
ApplyResolveLink ==
    /\ call.fn = "ResolveLink"
    /\ ~result.done
    /\ result' = [done |-> TRUE, value |-> ResolveLink(call.domain, LinkText(call))]
    /\ UNCHANGED <<opts, fetcher, cancellable, callers, call, processedURLs, queue, closed,
                   activeWorkers, stats, running, cache, crawl, ctx, worker, monitor,
                   panicked, history>>

NextResolve == ApplyResolveLink

SpecResolve == InitResolve /\ [][NextResolve]_vars

(***************************************************************************)
(* NormalizeURL on its own: one call, on a string given by its parts.      *)
(***************************************************************************)
\* The input is given by its parts: surrounding whitespace, scheme, the separator
\* after the scheme ("://", or ":" alone), host, path, query (without its question
\* mark), fragment (without its hash).
NormalizeCalls ==
    [fn : {"NormalizeURL"},
     lead : {<<>>, <<" ">>},
     trail : {<<>>, <<" ">>},
     scheme : {<<>>, HTTP, <<"h","t","t","p","s">>, <<"f","t","p">>,
               <<"h","t","t","p","x">>},
     sep : {<<":","/","/">>, <<":">>},
     host : {<<>>, HostA},
     path : {<<>>, <<"/">>, <<"/","p">>, <<"/","p","/">>, <<"/","p"," ","q">>,
             <<"/","p"," ">>, <<"/","%","4","7"," ","x">>},
     query : {<<>>, <<"q">>},
     fragment : {<<>>, <<"f">>}]

\* The text between the surrounding whitespace.
TrimmedText(c) ==
    (IF c.scheme = <<>> THEN <<>> ELSE c.scheme \o c.sep)
    \o c.host
    \o c.path
    \o (IF c.query = <<>> THEN <<>> ELSE <<"?">> \o c.query)
    \o (IF c.fragment = <<>> THEN <<>> ELSE <<"#">> \o c.fragment)

URLText(c) == c.lead \o TrimmedText(c) \o c.trail

InitNormalize ==
    /\ callers = "once"
    /\ cancellable = FALSE
    /\ New(SharedScenario.opts, SharedScenario.fetcher)
    /\ call \in NormalizeCalls
    /\ result = [done |-> FALSE, value |-> <<>>]

\* One call of NormalizeURL; the value kept is whether it succeeded and the String()
\* of the URL it returned.
ApplyNormalizeURL ==
    /\ call.fn = "NormalizeURL"
    /\ ~result.done
    /\ result' = [done |-> TRUE,
                  value |-> [ok |-> NormalizeURL(URLText(call)).ok,
                             url |-> URLString(NormalizeURL(URLText(call)))]]
    /\ UNCHANGED <<opts, fetcher, cancellable, callers, call, processedURLs, queue, closed,
                   activeWorkers, stats, running, cache, crawl, ctx, worker, monitor,
                   panicked, history>>

\* NormalizeURL called on the String() of the URL a first call returned, as
\* queueDiscoveredURLs does with a link ResolveLink has normalized.
ApplyRenormalize ==
    /\ call.fn = "NormalizeURL"
    /\ result.done
    /\ result.value.ok
    /\ "again" \notin DOMAIN result
    /\ result' = [done |-> TRUE, value |-> result.value,
                  again |-> [ok |-> NormalizeURL(result.value.url).ok,
                             url |-> URLString(NormalizeURL(result.value.url))]]
    /\ UNCHANGED <<opts, fetcher, cancellable, callers, call, processedURLs, queue, closed,
                   activeWorkers, stats, running, cache, crawl, ctx, worker, monitor,
                   panicked, history>>

NextNormalize == ApplyNormalizeURL \/ ApplyRenormalize

SpecNormalize == InitNormalize /\ [][NextNormalize]_vars

(***************************************************************************)
(* Properties                                                              *)
(***************************************************************************)
\* How many times the callback was invoked for a URL, whatever the error.
Delivered(url) ==
    CopiesIn([url |-> url, err |-> "nil"], callbacks)
    + CopiesIn([url |-> url, err |-> "parse"], callbacks)
    + CopiesIn([url |-> url, err |-> "fetch"], callbacks)

\* The workers that are past the loop of queueDiscoveredURLs, or in it.
InLoop(me) == me.pc \in {"queue", "admit", "send", "succeeded"}

SeedString(raw) == URLString(NormalizeURL(raw))

\* C3: the processed counter never exceeds MaxURLs + Workers - 1, and with one
\* worker neither processed nor the number of callback invocations exceeds MaxURLs.
C3_SoftCap ==
    /\ stats.processed <= opts.MaxURLs + opts.Workers - 1
    /\ opts.Workers = 1 =>
          /\ stats.processed <= opts.MaxURLs
          /\ BagCardinality(callbacks) <= opts.MaxURLs

\* Several workers were in flight when the cap was reached, and processed stands at
\* the largest value the bound allows.
C3_Witness ==
    /\ opts.Workers > 1
    /\ stats.processed = opts.MaxURLs + opts.Workers - 1

\* What the follow policy is to admit, told from the host labels alone.
Admits(followBehavior, page, link) ==
    CASE followBehavior = FollowNone -> FALSE
      [] followBehavior = FollowAny -> TRUE
      [] followBehavior = FollowSameDomain -> link = page
      [] followBehavior = FollowRelatedSubdomains ->
            /\ Len(link) >= 2
            /\ Len(page) >= 2
            /\ SubSeq(link, Len(link) - 1, Len(link)) = SubSeq(page, Len(page) - 1, Len(page))

AdmittedLinks ==
    LET kept == SelectSeq(call.links, LAMBDA link :
                             Admits(call.followBehavior, call.page.host, link.host))
    IN  [i \in 1..Len(kept) |-> PolicyURL(kept[i])]

\* C4: filterURLs keeps exactly the links the behaviour admits for the two hosts:
\* none under None, all under Any, those of the page's host under SameHost, those
\* with the page's last two labels under RelatedSubdomains, a host of fewer than two
\* labels matching nothing under RelatedSubdomains.
C4_FollowPolicy ==
    result.done => result.value = AdmittedLinks

\* Under RelatedSubdomains, a page of a one-label host with a link to itself and a
\* link to a host of more labels: the call has returned, with no link.
C4_Witness ==
    /\ result.done
    /\ call.followBehavior = FollowRelatedSubdomains
    /\ Len(call.page.host) = 1
    /\ Len(call.links) = 2
    /\ call.links[1].host = call.page.host
    /\ Len(call.links[2].host) > 1
    /\ result.value = <<>>

\* C5: a worker that processes a URL whose raw string is a key of the cache does not
\* invoke the fetcher: from the lookup it goes to the parser and the callback, no
\* worker is at the fetch of a URL the cache holds, and no step of a worker that
\* holds such a URL invokes the fetcher.
C5_CachedNotFetched ==
    [][\A r \in Runs, w \in WorkerIds :
          (/\ worker'[r][w] # worker[r][w]
           /\ opts.Cache # "none"
           /\ worker[r][w].rawURL \in cache) =>
              /\ worker[r][w].pc # "fetch"
              /\ worker[r][w].pc = "cache" => worker'[r][w].pc = "parse"
              /\ worker[r][w].pc = "parse" => worker'[r][w].pc = "callback"
              /\ fetched' = fetched]_vars

\* A URL that was in the cache has been delivered to the callback and never fetched.
C5_Witness ==
    \E url \in cacheHits : Delivered(url) = 1 /\ CopiesIn(url, fetched) = 0

\* The eligible links of the page the fetcher serves for a URL.
EligibleLinks(url) ==
    FilteredURLs(opts.FollowBehavior, ParseURL(url), Fetch(fetcher, url).Links)

\* A run given one seed, which the fetcher serves with a page of no eligible link,
\* and whose caller has not cancelled.
OneSeedNoLinks(r) ==
    /\ Len(crawl[r].urls) = 1
    /\ NormalizeURL(crawl[r].urls[1]).ok
    /\ ~Fetch(fetcher, SeedString(crawl[r].urls[1])).err
    /\ EligibleLinks(SeedString(crawl[r].urls[1])) = <<>>
    /\ ~ctx[r].parent

\* C6: when a crawl of one seed whose page has no eligible outbound link has
\* returned, without its caller cancelling, the seed has been delivered to the
\* callback exactly once and processed is 1.
C6_IdleShutdown ==
    \A r \in Runs :
       (OneSeedNoLinks(r) /\ crawl[r].pc = "returned") =>
          /\ Delivered(SeedString(crawl[r].urls[1])) = 1
          /\ stats.processed = 1

\* A run given two seeds of different URLs, the fetcher failing on one and serving
\* the other with a page of no eligible link, with room for both under the cap, no
\* cache, and a caller that has not cancelled.
OneFailsOneSucceeds(r) ==
    /\ Len(crawl[r].urls) = 2
    /\ \A i \in 1..2 : NormalizeURL(crawl[r].urls[i]).ok
    /\ \E i \in 1..2 :
          /\ Fetch(fetcher, SeedString(crawl[r].urls[i])).err
          /\ ~Fetch(fetcher, SeedString(crawl[r].urls[3 - i])).err
          /\ EligibleLinks(SeedString(crawl[r].urls[3 - i])) = <<>>
    /\ opts.MaxURLs >= 2
    /\ opts.Cache = "none"
    /\ ~ctx[r].parent

\* How many callback invocations carried one of the given errors.
CallbacksWith(errs) ==
    BagCardinality([rec \in {x \in BagToSet(callbacks) : x.err \in errs} |->
                       CopiesIn(rec, callbacks)])

\* C7: when a crawl of two seeds, one the fetcher fails on and one it serves, has
\* returned, it has returned no error, the callback was invoked once with an error
\* and once without, and processed = 2, succeeded = 1, failed = 1.
C7_FetchErrorContained ==
    \A r \in Runs :
       (OneFailsOneSucceeds(r) /\ crawl[r].pc = "returned") =>
          /\ crawl[r].err = "nil"
          /\ CallbacksWith({"fetch", "parse"}) = 1
          /\ CallbacksWith({"nil"}) = 1
          /\ stats = [processed |-> 2, succeeded |-> 1, failed |-> 1]

\* A run is in progress from the point where Crawl has set c.running to the point
\* where its deferred call clears it.
InProgress(r) == crawl[r].pc \in {"enqueue", "send", "wait", "return", "clear"}

\* C8: at most one run is in progress on a crawler, a Crawl call made during a run
\* failing with the already-running error, also when two calls start concurrently.
C8_OneRunAtATime ==
    Cardinality({r \in Runs : InProgress(r)}) <= 1

\* The workers that have incremented processed for a URL and not yet reached the
\* callback.
BeforeCallback ==
    {rw \in Runs \X WorkerIds :
        worker[rw[1]][rw[2]].pc \in {"cache", "fetch", "cache_set", "parse", "callback",
                                     "callback_err"}}

ValidSeeds(r) ==
    {SeedString(crawl[r].urls[i]) :
        i \in {j \in 1..Len(crawl[r].urls) : NormalizeURL(crawl[r].urls[j]).ok}}

\* C10: a seed that fails normalization does not end the run: Crawl does not return
\* its error, and once Crawl has returned without a cancellation every valid seed
\* has been admitted.
C10_InvalidSeedSkipped ==
    \A r \in Runs :
       /\ crawl[r].err # "invalid_url"
       /\ (crawl[r].pc = "returned" /\ crawl[r].err = "nil" /\ ~ctx[r].parent) =>
             ValidSeeds(r) \subseteq processedURLs

\* Whether every seed of a run is one NormalizeURL accepts.
AllSeedsValid(r) == \A i \in 1..Len(crawl[r].urls) : NormalizeURL(crawl[r].urls[i]).ok

\* C11: Crawl returns an error only when the crawler was already running or when
\* the context was cancelled before any URL was admitted; stated for the runs
\* whose seeds are all valid, a run that has queued a seed returns nil.
C11_ReturnedErrors ==
    \A r \in Runs :
       (crawl[r].pc = "returned" /\ AllSeedsValid(r) /\ crawl[r].err # "nil") =>
          \/ crawl[r].err = "already_running"
          \/ crawl[r].err = "context_canceled" /\ crawl[r].queued = 0

\* C12: a run with a non-empty list of valid seeds whose context the caller
\* cancelled before any seed was queued returns the context's error, whatever
\* the free capacity of the queue.
C12_CancelledBeforeQueued ==
    \A r \in Runs :
       (/\ crawl[r].pc = "returned"
        /\ ctx[r].early
        /\ crawl[r].urls # <<>>
        /\ AllSeedsValid(r)) => crawl[r].err = "context_canceled"

\* C13: when a worker leaves the insertion of the links it admitted, with the
\* context live and the queue having a free slot for each of them, every one of
\* them has been pushed onto the queue, not just a single entry.
C13_EveryLinkPushed ==
    [][\A r \in Runs, w \in WorkerIds :
          (/\ worker[r][w].pc = "send"
           /\ worker'[r][w].pc = "succeeded"
           /\ ~ctx[r].done
           /\ ~closed
           /\ Len(queue) + Len(worker[r][w].next) <= opts.QueueSize) =>
              \A i \in 1..Len(worker[r][w].next) :
                 CopiesIn(worker[r][w].next[i], pushed') = 1]_vars

\* A run given one valid seed, with no cache, the fetcher serving the seed and every
\* eligible link of its page, the cap and the queue large enough for all of them,
\* and a caller that has not cancelled.
OneSeedAllServed(r) ==
    /\ opts.Cache = "none"
    /\ Len(crawl[r].urls) = 1
    /\ NormalizeURL(crawl[r].urls[1]).ok
    /\ ~Fetch(fetcher, SeedString(crawl[r].urls[1])).err
    /\ \A u \in Range(EligibleLinks(SeedString(crawl[r].urls[1]))) : ~Fetch(fetcher, u).err
    /\ Len(EligibleLinks(SeedString(crawl[r].urls[1]))) + 1 <= opts.MaxURLs
    /\ Len(EligibleLinks(SeedString(crawl[r].urls[1]))) <= opts.QueueSize
    /\ ~ctx[r].parent

\* C14: when such a run has returned, the seed and every link of its page that
\* passes the follow policy have each been delivered to the callback exactly once.
C14_SeedAndLinksDelivered ==
    \A r \in Runs :
       (OneSeedAllServed(r) /\ crawl[r].pc = "returned") =>
          \A u \in {SeedString(crawl[r].urls[1])}
                      \cup Range(EligibleLinks(SeedString(crawl[r].urls[1]))) :
             Delivered(u) = 1

\* C15: when a started run has returned, on whatever path, every worker of the run
\* has exited and the crawler is no longer running.
C15_WorkersExitedAtReturn ==
    \A r \in Runs :
       (crawl[r].pc = "returned" /\ crawl[r].err # "already_running") =>
          WorkersDone(r) /\ ~running

\* Whether seed i of a run is still to be pushed: the enqueuer has not gone past
\* it, or a worker that admitted it as a link has not left the insertion yet.
SeedPending(r, i) ==
    \/ crawl[r].pc \in {"idle", "start"}
    \/ crawl[r].pc \in {"enqueue", "send"} /\ crawl[r].i <= i
    \/ \E w \in WorkerIds : /\ worker[r][w].pc \in {"queue", "admit", "send"}
                            /\ SeedString(crawl[r].urls[i]) \in Range(worker[r][w].next)

\* C16: while the context of a run with valid seeds is not cancelled no seed is
\* lost: each seed has been pushed onto the queue or is still to be pushed.
C16_NoSeedLost ==
    \A r \in Runs :
       (AllSeedsValid(r) /\ ~ctx[r].done) =>
          \A i \in 1..Len(crawl[r].urls) :
             CopiesIn(SeedString(crawl[r].urls[i]), pushed) >= 1 \/ SeedPending(r, i)

\* C17: a worker that is at the insertion of the links it admitted can always take
\* its step, whatever the state of the queue and of the other workers.
C17_InsertionNeverBlocks ==
    \A r \in Runs, w \in WorkerIds :
       (~panicked /\ worker[r][w].pc = "send") => ENABLED ProcessSend(r, w)

\* A worker has gone through the insertion with the context live and has pushed
\* none of the links it admitted: the queue was full and the insertion was dropped.
C17_Witness ==
    \E r \in Runs, w \in WorkerIds :
       /\ worker[r][w].pc = "succeeded"
       /\ worker[r][w].k > Len(worker[r][w].urls)
       /\ worker[r][w].next # <<>>
       /\ \A i \in 1..Len(worker[r][w].next) : CopiesIn(worker[r][w].next[i], pushed) = 0
       /\ ~ctx[r].done
       /\ ~panicked

\* The path of the result for a link with neither scheme nor authority, resolved
\* against a domain with no path.
RelativePath(path) ==
    IF path \in {<<>>, <<"/">>} THEN <<>>
    ELSE IF path[1] = "/" THEN Escape(Unescape(path, "path").s, "path")
    ELSE <<"/">> \o Escape(Unescape(path, "path").s, "path")

\* C18: ResolveLink rejects a link whose scheme is neither http nor https, resolves
\* a link with no scheme and no authority against https://domain, and gives every
\* ok result in normalized form: https scheme, no query, no fragment, no bare root
\* slash.
C18_ResolveLinkNormalForm ==
    (call.fn = "ResolveLink" /\ result.done) =>
       /\ call.scheme \notin {<<>>, HTTP, <<"h","t","t","p","s">>} => ~result.value.ok
       /\ (call.scheme = <<>> /\ call.authority = <<>>) =>
             /\ result.value.ok
             /\ result.value.url = HTTPSColonSlashSlash \o HostA \o RelativePath(call.path)
       /\ result.value.ok =>
             /\ HasPrefix(result.value.url, HTTPSColonSlashSlash)
             /\ ~Contains(result.value.url, <<"?">>)
             /\ ~Contains(result.value.url, <<"#">>)
             /\ ParseURL(result.value.url).Path # <<"/">>

\* The path of the input as the normalized URL writes it: the whitespace that ends
\* the input trimmed, a bare root path left out, the path decoded and written in
\* the default encoding (a space as %20, an escaped letter as the letter).
NormalPath(c) ==
    LET path == IF c.query = <<>> /\ c.fragment = <<>> THEN TrimSpace(c.path) ELSE c.path
    IN  IF path = <<"/">> THEN <<>> ELSE Escape(Unescape(path, "path").s, "path")

\* C19: NormalizeURL fails on an input that is empty once trimmed or that declares
\* a scheme other than http and https; on any other input with a host it gives
\* https://host followed by the path, a bare root path left out, whatever the
\* scheme, the query, the fragment and the surrounding whitespace of the input.
C19_NormalizeURL ==
    (call.fn = "NormalizeURL" /\ result.done) =>
       /\ TrimSpace(URLText(call)) = <<>> => ~result.value.ok
       /\ call.scheme \notin {<<>>, HTTP, <<"h","t","t","p","s">>} => ~result.value.ok
       /\ (call.scheme \in {<<>>, HTTP, <<"h","t","t","p","s">>} /\ call.host # <<>>) =>
             /\ result.value.ok
             /\ result.value.url = HTTPSColonSlashSlash \o call.host \o NormalPath(call)

\* C20: the URL NormalizeURL gives for an input with a host and a valid scheme has
\* no trailing slash, so it is the URL given for the same input without that slash.
C20_TrailingSlashRemoved ==
    (/\ call.fn = "NormalizeURL"
     /\ result.done
     /\ call.scheme \in {<<>>, HTTP, <<"h","t","t","p","s">>}
     /\ call.host # <<>>) =>
        /\ result.value.ok
        /\ result.value.url[Len(result.value.url)] # "/"

\* C21: a worker whose parser fails on a fetched page goes from the parser to the
\* callback, invokes it with the parse error and goes on with the filtered links of
\* the page; no step it takes for that page increments failed, and the step that
\* ends the page increments succeeded.
C21_ParseErrorNotFatal ==
    [][\A r \in Runs, w \in WorkerIds :
          (/\ worker'[r][w] # worker[r][w]
           /\ worker[r][w].pc \in {"parse", "callback", "queue", "admit", "send",
                                    "succeeded"}
           /\ ParseFails(worker[r][w].rawURL)) =>
              /\ worker[r][w].pc = "parse" =>
                    /\ worker'[r][w].pc = "callback"
                    /\ [url |-> worker[r][w].rawURL,
                        parser |-> ParserFor(worker[r][w].rawURL)] \in parsed'
              /\ worker[r][w].pc = "callback" =>
                    /\ callbacks' = callbacks
                                       (+) SetToBag({[url |-> worker[r][w].rawURL,
                                                      err |-> "parse"]})
                    /\ worker'[r][w].pc \in {"queue", "send", "succeeded"}
                    /\ worker'[r][w].urls =
                          FilteredURLs(opts.FollowBehavior, ParseURL(worker[r][w].rawURL),
                                       worker[r][w].Links)
              /\ stats'.failed = stats.failed
              /\ worker[r][w].pc \in {"queue", "admit", "send"} =>
                    panicked' \/ worker'[r][w].pc \in {"queue", "admit", "send",
                                                        "succeeded"}
              /\ worker[r][w].pc = "succeeded" =>
                    stats'.succeeded = stats.succeeded + 1]_vars

\* The parser failed on the one seed of a run: the callback got the parse error, the
\* link of the page was pushed onto the queue, and the page counts as succeeded.
C21_Witness ==
    /\ crawl[1].urls = <<SeedB>>
    /\ CopiesIn([url |-> PageB, err |-> "parse"], callbacks) = 1
    /\ CopiesIn(PageX, pushed) = 1
    /\ stats.succeeded >= 1
    /\ stats.failed = 0

\* C22: a Crawl call made after an earlier run has returned is accepted and starts
\* from an empty seen set, an open and empty queue, zero counters and no active
\* worker.
C22_FreshStatePerRun ==
    \A r \in Runs :
       (r > 1 /\ crawl[r - 1].pc = "returned" /\ crawl[r].pc = "start") =>
          /\ processedURLs = {}
          /\ queue = <<>>
          /\ ~closed
          /\ stats = [processed |-> 0, succeeded |-> 0, failed |-> 0]
          /\ activeWorkers = 0

\* What filterURLs keeps of the links of the call under RelatedSubdomains.
RelatedLinks ==
    filterURLs(FollowRelatedSubdomains, ParseURL(PolicyURL(call.page)),
               [i \in 1..Len(call.links) |-> PolicyURL(call.links[i])])

\* C23 as stated: every link filterURLs keeps under SameHost it also keeps under
\* RelatedSubdomains, AreRelatedHosts being true of two URLs of one host.
C23_SameHostIsRelated ==
    (result.done /\ call.followBehavior = FollowSameDomain) =>
       /\ Range(result.value) \subseteq Range(RelatedLinks)
       /\ AreRelatedHosts(ParseURL(PolicyURL(call.page)), ParseURL(PolicyURL(call.page)))

\* C23 amended: AreRelatedHosts is true of two URLs of one host when the host has at
\* least two dot-separated labels, and every link filterURLs keeps under SameHost on
\* a page of such a host it also keeps under RelatedSubdomains; on a page whose host
\* has one label RelatedSubdomains keeps nothing, whatever SameHost keeps.
C23_SameHostOfTwoLabelsIsRelated ==
    (result.done /\ call.followBehavior = FollowSameDomain) =>
       IF Len(call.page.host) >= 2
       THEN /\ Range(result.value) \subseteq Range(RelatedLinks)
            /\ AreRelatedHosts(ParseURL(PolicyURL(call.page)),
                               ParseURL(PolicyURL(call.page)))
       ELSE /\ RelatedLinks = <<>>
            /\ ~AreRelatedHosts(ParseURL(PolicyURL(call.page)),
                                ParseURL(PolicyURL(call.page)))

\* Under SameHost, a page of a two-label host with a link to its own host and a link
\* to another host: the call has returned with the first link alone.
C23_Witness ==
    /\ result.done
    /\ call.followBehavior = FollowSameDomain
    /\ Len(call.page.host) = 2
    /\ Len(call.links) = 2
    /\ call.links[1].host = call.page.host
    /\ call.links[2].host # call.page.host
    /\ result.value = <<PolicyURL(call.links[1])>>

\* The step by which the idle monitor of a run cancels the run's context.
IdleCancel(r) ==
    /\ monitor[r] = "idle"
    /\ monitor'[r] = "exited"
    /\ ~ctx[r].done
    /\ ctx'[r].done

\* C24: in every state in which the idle monitor cancels, the queue is empty, no
\* worker holds a URL it received and has not finished, and the seeds are not still
\* being enqueued.
C24_IdleCancelOnlyWhenNoWork ==
    [][\A r \in Runs :
          IdleCancel(r) =>
             /\ queue = <<>>
             /\ \A w \in WorkerIds : worker[r][w].pc \in {"none", "select", "exited"}
             /\ crawl[r].pc \notin {"enqueue", "send"}]_vars

\* C25: no run ever sends on the queue after it has been closed (the one panic of a
\* single run): neither a worker nor the seed enqueuer is at a send that the closed
\* queue lets through.
C25_NoSendOnClosedQueue ==
    /\ ~panicked
    /\ \A r \in Runs : closed => crawl[r].pc # "send"

\* C26: a worker that is at its select once the run's context has been cancelled
\* does not receive a URL from the queue.
C26_NoReceiveAfterCancel ==
    [][\A r \in Runs, w \in WorkerIds :
          (ctx[r].done /\ worker[r][w].pc = "select") =>
             worker'[r][w].pc \in {"select", "exited"}]_vars

\* The points of processURL after IncrementProcessed, up to IncrementSucceeded or
\* IncrementFailed.
InPage(me) ==
    me.pc \in {"cache", "fetch", "cache_set", "parse", "callback", "callback_err",
              "failed", "queue", "admit", "send", "succeeded"}

\* C27: a worker that began a URL before the run's context was cancelled
\* carries the URL through to the increment of succeeded or failed: the run does not
\* stop on a panic while the worker still holds the page.
C27_InFlightCarriedThrough ==
    \A r \in Runs, w \in WorkerIds :
       (ctx[r].done /\ InPage(worker[r][w]) /\ worker[r][w].live) => ~panicked

\* The enqueuer of a run waits to send a seed, the queue is full, every worker of
\* the run has left, the context is not cancelled and the idle monitor holds no
\* reading of an empty queue: the monitor, which cancels on an empty queue only,
\* is the one process that can still take a step.
SeedBlocked(r) ==
    /\ crawl[r].pc = "send"
    /\ Len(queue) = opts.QueueSize
    /\ WorkersDone(r)
    /\ ~ctx[r].done
    /\ ~closed
    /\ monitor[r] \in {"running", "ticked"}

\* C28: once the processed count has reached MaxURLs a run that no caller cancels
\* goes on to its return: it is never left with its enqueuer waiting on a full
\* queue that no worker will ever read.
C28_CapStopsTheRun ==
    \A r \in Runs :
       (~cancellable /\ stats.processed >= opts.MaxURLs) => ~SeedBlocked(r)

\* C29: a worker that holds a URL it received while the processed count has
\* already reached MaxURLs leaves at its next step, and that step changes no
\* counter, not the active count, not the cache, and invokes neither the fetcher
\* nor the callback.
C29_CapExitTouchesNothing ==
    [][\A r \in Runs, w \in WorkerIds :
          ( /\ worker[r][w].pc = "cap"
            /\ stats.processed >= opts.MaxURLs
            /\ worker'[r][w] # worker[r][w] )
          => /\ worker'[r][w] = Exited
             /\ UNCHANGED <<stats, activeWorkers, cache, processedURLs, queue,
                            callbacks, fetched, cacheHits, pushed>>]_vars

\* The single worker of a run left while the context was not cancelled and the
\* queue not closed, that is on the cap, and a URL that was sent on the queue is
\* no longer in it and was neither looked up, fetched nor handed to the callback.
C29_Witness ==
    \E r \in Runs :
       /\ opts.Workers = 1
       /\ opts.MaxURLs > 0
       /\ worker[r][1].pc = "exited"
       /\ ~ctx[r].done
       /\ ~closed
       /\ \E u \in BagToSet(pushed) :
             /\ u \notin Range(queue)
             /\ ~BagIn(u, fetched)
             /\ u \notin cacheHits
             /\ \A c \in BagToSet(callbacks) : c.url # u

\* The URLs a worker has taken from the queue: sent on it and no longer in it.
Dequeued == {u \in BagToSet(pushed) : u \notin Range(queue)}

DeliveredPage(url) ==
    CopiesIn([url |-> url, err |-> "nil"], callbacks)
    + CopiesIn([url |-> url, err |-> "parse"], callbacks) >= 1

\* The step invokes the callback for the URL, once.
Invokes(url) ==
    \E e \in {"nil", "parse", "fetch"} :
       callbacks' = callbacks (+) SetToBag({[url |-> url, err |-> e]})

\* C31: the steps of the processing of one URL come in a fixed order.  The step
\* that begins a URL increments processed and does nothing else to the counters
\* or the histories; a worker admits a link of its page or sends one on the queue
\* only once the callback has been invoked for the page; succeeded is incremented
\* by a worker that is through the callback and the admissions; failed is
\* incremented by a worker whose callback has received the fetch error.
C31_StepsInOrder ==
    [][\A r \in Runs, w \in WorkerIds :
          LET me == worker[r][w]
          IN  worker'[r][w] # me =>
                /\ me.pc = "begin" <=> stats'.processed = stats.processed + 1
                /\ me.pc = "begin" =>
                      /\ ~me.called
                      /\ UNCHANGED <<callbacks, fetched, cacheHits, cache, processedURLs,
                                     pushed>>
                /\ (~me.called /\ worker'[r][w].called) <=> Invokes(me.rawURL)
                /\ me.called => callbacks' = callbacks
                /\ me.pc \in {"cache", "fetch", "cache_set", "parse", "callback",
                               "callback_err"} =>
                      /\ ~me.called
                      /\ UNCHANGED <<stats, processedURLs, pushed>>
                /\ (processedURLs' # processedURLs \/ pushed' # pushed) =>
                      /\ me.pc \in {"admit", "send"}
                      /\ me.called
                      /\ DeliveredPage(me.rawURL)
                      /\ stats' = stats
                /\ stats'.succeeded # stats.succeeded =>
                      /\ me.pc = "succeeded"
                      /\ me.called
                      /\ DeliveredPage(me.rawURL)
                      /\ UNCHANGED <<callbacks, processedURLs, pushed>>
                /\ stats'.failed # stats.failed =>
                      /\ me.pc = "failed"
                      /\ me.called
                      /\ CopiesIn([url |-> me.rawURL, err |-> "fetch"], callbacks) >= 1
                      /\ UNCHANGED callbacks]_vars

\* A worker is about to increment succeeded for a page whose callback has been
\* invoked and one of whose links it has sent on the queue; processed counted the
\* page before.
C31_Witness ==
    \E r \in Runs, w \in WorkerIds :
       LET me == worker[r][w]
       IN  /\ me.pc = "succeeded"
           /\ me.called
           /\ DeliveredPage(me.rawURL)
           /\ me.next # <<>>
           /\ \E i \in 1..Len(me.next) : CopiesIn(me.next[i], pushed) = 1
           /\ stats.processed >= 1
           /\ stats.succeeded = 0

\* What the failure path of processURL leaves alone: the cache, the parser, the
\* set of seen URLs, the queue.
FailureFrame == <<cache, parsed, processedURLs, queue, pushed>>

\* C32: when the fetch of a URL fails the worker goes to the callback with the
\* error, then to the increment of failed, then back to its select, and none of
\* these steps invokes the parser, writes to the cache, admits a link or sends
\* one on the queue, or changes succeeded.
C32_FetchErrorStops ==
    [][\A r \in Runs, w \in WorkerIds :
          LET me == worker[r][w]
              failure == [url |-> me.rawURL, err |-> "fetch"]
          IN  worker'[r][w] # me =>
                /\ (me.pc = "fetch" /\ Fetch(fetcher, me.rawURL).err) =>
                      /\ worker'[r][w].pc = "callback_err"
                      /\ UNCHANGED <<FailureFrame, stats, callbacks>>
                /\ me.pc = "callback_err" =>
                      /\ worker'[r][w].pc = "failed"
                      /\ callbacks' = callbacks (+) SetToBag({failure})
                      /\ UNCHANGED <<FailureFrame, stats>>
                /\ me.pc = "failed" =>
                      /\ worker'[r][w].pc = "leave"
                      /\ stats' = [stats EXCEPT !.failed = @ + 1]
                      /\ UNCHANGED <<FailureFrame, callbacks>>
                /\ me.pc = "leave" =>
                      /\ worker'[r][w] = AtSelect
                      /\ UNCHANGED <<FailureFrame, callbacks, stats>>]_vars

\* The fetch of a URL that a parser serves has failed on a crawler with a cache:
\* the callback got the error, failed is 1 and succeeded 0, the worker is back at
\* its select, the parser was not invoked for the URL and the cache does not hold it.
C32_Witness ==
    \E r \in Runs, w \in WorkerIds, c \in BagToSet(callbacks) :
       /\ c.err = "fetch"
       /\ opts.Cache # "none"
       /\ ParserFor(c.url) # "none"
       /\ \A p \in parsed : p.url # c.url
       /\ c.url \notin cache
       /\ stats.failed = 1
       /\ stats.succeeded = 0
       /\ worker[r][w].pc = "select"
       /\ ~panicked

\* cache.Set was called for the URL and the cache does not hold it: the write failed.
WriteFailed(url) == url \in cacheSets /\ url \notin cache

\* C33: a worker whose cache lookup misses and whose fetch succeeds with markup
\* that is not empty calls cache.Set with the raw URL, and the cache then holds
\* the URL or, the write having failed, is as before; in both cases the worker
\* goes on to the callback.  On a cache hit, with empty markup or with no cache
\* no write is attempted.  After a failed write the callback receives the error
\* of the parser or none, and the page is counted as succeeded.
C33_CacheWriteBestEffort ==
    [][\A r \in Runs, w \in WorkerIds :
          LET me == worker[r][w]
              hit == opts.Cache # "none" /\ me.rawURL \in cache
              response == Fetch(fetcher, me.rawURL)
              verdict == IF ParseFails(me.rawURL) THEN "parse" ELSE "nil"
          IN  worker'[r][w] # me =>
                /\ (me.pc = "cache" /\ hit) =>
                      /\ worker'[r][w].pc = "parse"
                      /\ UNCHANGED <<cache, cacheSets>>
                /\ (me.pc = "cache" /\ ~hit) =>
                      /\ worker'[r][w].pc = "fetch"
                      /\ UNCHANGED <<cache, cacheSets>>
                /\ (me.pc = "fetch" /\ ~response.err) =>
                      /\ worker'[r][w] =
                            [me EXCEPT !.pc = IF opts.Cache # "none" /\ response.HTML
                                              THEN "cache_set" ELSE "parse",
                                       !.Links = response.Links]
                      /\ UNCHANGED <<cache, cacheSets>>
                /\ me.pc = "cache_set" =>
                      /\ worker'[r][w].pc = "parse"
                      /\ cacheSets' = cacheSets \cup {me.rawURL}
                      /\ cache' \in {cache, cache \cup {me.rawURL}}
                /\ (me.pc = "parse" /\ WriteFailed(me.rawURL)) =>
                      /\ worker'[r][w].pc = "callback"
                      /\ UNCHANGED <<cache, cacheSets, callbacks, stats>>
                /\ (me.pc = "callback" /\ WriteFailed(me.rawURL)) =>
                      /\ callbacks' = callbacks (+) SetToBag({[url |-> me.rawURL,
                                                               err |-> verdict]})
                      /\ worker'[r][w].pc \in {"queue", "send", "succeeded"}
                /\ (me.pc = "succeeded" /\ WriteFailed(me.rawURL)) =>
                      stats' = [stats EXCEPT !.succeeded = @ + 1]]_vars

\* The write of a fetched page to the cache failed; the callback received the
\* page without an error and the page was counted as succeeded.
C33_Witness ==
    \E c \in BagToSet(callbacks) :
       /\ c.err = "nil"
       /\ WriteFailed(c.url)
       /\ CopiesIn(c.url, fetched) = 1
       /\ stats.succeeded = 1
       /\ stats.failed = 0
       /\ \A r \in Runs, w \in WorkerIds : worker[r][w].pc \in {"none", "select", "exited"}

\* The calls of Parse made for a URL.
ParsedWith(url) == {p.parser : p \in {q \in parsed : q.url = url}}

\* C34: for every page handed to the callback after a fetch or a cache hit, the
\* parser registered for the exact host of the page was invoked if there is one;
\* the default parser was invoked only when no parser is registered for that
\* host; and with neither, no parser was invoked and the callback received no
\* error.
C34_ParserDispatch ==
    \A c \in BagToSet(callbacks) :
       c.err # "fetch" =>
          LET host == Hostname(ParseURL(c.url))
          IN  IF host \in opts.Parsers THEN ParsedWith(c.url) = {"domain"}
              ELSE IF opts.DefaultParser THEN ParsedWith(c.url) = {"default"}
              ELSE ParsedWith(c.url) = {} /\ c.err = "nil"

\* With a default parser configured, a page of the host that has a parser of its
\* own went to that parser, and a page of another host to the default parser.
C34_Witness ==
    \E c, d \in BagToSet(callbacks) :
       /\ opts.DefaultParser
       /\ c.err # "fetch" /\ d.err # "fetch"
       /\ Hostname(ParseURL(c.url)) \in opts.Parsers
       /\ Hostname(ParseURL(d.url)) \notin opts.Parsers
       /\ ParsedWith(c.url) = {"domain"}
       /\ ParsedWith(d.url) = {"default"}

\* A list of strings in strictly ascending order: sorted and free of duplicates.
Ascending(list) == \A i \in 1..(Len(list) - 1) : StrLess(list[i], list[i + 1])

\* The entries of a list that have been sent on the queue are its first ones.
PushedPrefix(list) ==
    \A i \in 1..Len(list) :
       CopiesIn(list[i], pushed) = 1 => \A j \in 1..(i - 1) : CopiesIn(list[j], pushed) = 1

\* The links of the page are offered in the order of the list: the list is in
\* ascending order and free of duplicates, and next holds entries of the part of
\* the list gone through, in ascending order too.
OfferedInOrder(me) ==
    /\ Ascending(me.urls)
    /\ Ascending(me.next)
    /\ Range(me.next) \subseteq {me.urls[k] : k \in 1..(me.k - 1)}

\* C35: the links a worker takes from a page form a list in ascending order and
\* free of duplicates, they are offered to the set of seen URLs in that order,
\* and those of them that reach the queue are the first of the ones admitted:
\* which links reach the queue depends on the set of links of the page alone.
C35_AdmittedInSortedOrder ==
    \A r \in Runs, w \in WorkerIds :
       LET me == worker[r][w]
       IN  me.pc \in {"queue", "admit", "send", "succeeded"} =>
              /\ OfferedInOrder(me)
              /\ PushedPrefix(me.next)

\* No worker is between IncrementProcessed and the increment of succeeded or
\* failed.
NoPageInHand == \A r \in Runs, w \in WorkerIds : ~InPage(worker[r][w])

\* Every URL sent on the queue is one url.Parse accepts.
NoInvalidURL == \A u \in BagToSet(pushed) : ParseURL(u).ok

CountersBalance == stats.processed = stats.succeeded + stats.failed

\* C36: succeeded + failed never exceeds processed and no counter decreases;
\* when no worker is in the middle of a URL and no URL was skipped as invalid,
\* processed = succeeded + failed; and this is so once a run whose seeds are all
\* valid has returned.
C36_CountersConsistent ==
    /\ [](stats.succeeded + stats.failed <= stats.processed)
    /\ []((NoPageInHand /\ NoInvalidURL) => CountersBalance)
    /\ [](\A r \in Runs :
             (crawl[r].pc = "returned" /\ AllSeedsValid(r) /\ NoInvalidURL)
                => CountersBalance)
    /\ [][/\ stats'.processed >= stats.processed
          /\ stats'.succeeded >= stats.succeeded
          /\ stats'.failed >= stats.failed]_vars

\* A worker or the enqueuer has stored the URL in the set of seen URLs and has
\* yet to reach or to leave the select that sends it.
AwaitingSend(u) ==
    \/ \E r \in Runs, w \in WorkerIds :
          worker[r][w].pc \in {"queue", "admit", "send"}
             /\ u \in Range(worker[r][w].next)
    \/ \E r \in Runs : crawl[r].pc = "send" /\ crawl[r].value = u

\* The URLs that are in the set of seen URLs, were not sent on the queue and are
\* no longer about to be.
Dropped == {u \in processedURLs : ~BagIn(u, pushed) /\ ~AwaitingSend(u)}

SeedsAllCached(r) ==
    /\ crawl[r].urls # <<>>
    /\ AllSeedsValid(r)
    /\ opts.Cache # "none"
    /\ \A i \in 1..Len(crawl[r].urls) :
          LET seed == SeedString(crawl[r].urls[i])
          IN  seed \in cache /\ ~BagIn(seed, fetched)

\* C38: a worker that processes a page it got from the cache has no link to
\* offer and changes neither the set of seen URLs nor the queue, whatever the
\* follow behaviour; a run whose seeds are all in the cache sees no URL other
\* than its seeds.
C38_CachedPageHasNoLinks ==
    /\ [][\A r \in Runs, w \in WorkerIds :
             LET me == worker[r][w]
             IN  ( /\ worker'[r][w] # me
                   /\ me.rawURL \in cacheHits
                   /\ me.pc \in {"parse", "callback", "queue", "admit", "send",
                                  "succeeded"} ) =>
                      /\ me.Links = <<>> /\ me.urls = <<>> /\ me.next = <<>>
                      /\ UNCHANGED <<processedURLs, queue, pushed>>]_vars
    /\ [](\A r \in Runs :
             SeedsAllCached(r) =>
                processedURLs \subseteq {SeedString(crawl[r].urls[i]) :
                                            i \in 1..Len(crawl[r].urls)})

\* The workers between incrementActiveWorkers and decrementActiveWorkers.
Processing ==
    {rw \in Runs \X WorkerIds :
        InPage(worker[rw[1]][rw[2]]) \/ worker[rw[1]][rw[2]].pc \in {"begin", "leave"}}

\* C39: the count of active workers is the number of workers that are between
\* the start and the end of the processing of a URL; it is therefore between 0
\* and Workers, and 0 when every worker has exited.
C39_ActiveWorkersExact ==
    /\ activeWorkers = Cardinality(Processing)
    /\ activeWorkers >= 0
    /\ activeWorkers <= opts.Workers
    /\ (\A r \in Runs : WorkersDone(r)) => activeWorkers = 0

\* Every worker of a pool of several is in the middle of a URL and the count
\* stands at Workers.
C39_Witness ==
    /\ opts.Workers > 1
    /\ activeWorkers = opts.Workers
    /\ \A w \in 1..opts.Workers : InPage(worker[1][w])

\* C40: NormalizeURL called on the string of a URL it returned succeeds and gives
\* a URL of the same string.
C40_NormalizeIdempotent ==
    (call.fn = "NormalizeURL" /\ "again" \in DOMAIN result) =>
       /\ result.again.ok
       /\ result.again.url = result.value.url
====
